---- MODULE Spec2Model ----
(***************************************************************************)
(* TrailCast / Scent Cone: the scent dispersion and confidence engine.     *)
(*                                                                         *)
(*   lib/geo.ts            Geodesy kernel, simple cone kernel, track       *)
(*                         analytics                                       *)
(*   lib/scentEnvelope.ts  Envelope and confidence model                   *)
(*                                                                         *)
(* The source computes in IEEE doubles.  The model computes in decimal     *)
(* fixed point over TLC's integers:                                        *)
(*   Fx     a real r is the integer r * FX (six decimals): angles in       *)
(*          degrees and radians, ratios, multipliers, confidence           *)
(*   Milli  a length l is the integer l * MILLI (three decimals): feet     *)
(*          and metres                                                     *)
(* Elapsed time is in whole minutes, a timestamp is the minute it names;   *)
(* wind speed is Fx mph (envelope model) or Milli km/h (cone kernel).      *)
(* NaN (an unparsable timestamp) is the model value NaN, which every       *)
(* arithmetic step propagates as IEEE does.                                *)
(***************************************************************************)
EXTENDS Integers, Sequences, FiniteSets, TLC

FX == 1000 * 1000
MILLI == 10 * 100
HALF == FX \div 2

(***************************************************************************)
(* Fixed-point arithmetic.  Products and quotients are formed in pieces so *)
(* that no intermediate leaves the 32-bit range.                           *)
(***************************************************************************)
Abs(a) == IF a < 0 THEN -a ELSE a
Sgn(a) == IF a < 0 THEN -1 ELSE IF a > 0 THEN 1 ELSE 0
Min2(a, b) == IF a < b THEN a ELSE b
Max2(a, b) == IF a > b THEN a ELSE b

\* floor(a * b / FX) for a = ah * MILLI + al and b = bh * MILLI + bl
MulParts(ah, al, bh, bl) ==
  ah * bh + (ah * bl) \div MILLI + (al * bh) \div MILLI
  + (((ah * bl) % MILLI) + ((al * bh) % MILLI) + ((al * bl) \div MILLI)) \div MILLI

\* floor(a * b / FX) for a, b >= 0
MulAbs(a, b) == MulParts(a \div MILLI, a % MILLI, b \div MILLI, b % MILLI)

\* a * b on Fx values (also Fx * Milli -> Milli, Fx * plain -> plain), truncated
FxMul(a, b) == Sgn(a) * Sgn(b) * MulAbs(Abs(a), Abs(b))

Pow10(n) ==
  IF n = 0 THEN 1 ELSE IF n = 1 THEN 10 ELSE IF n = 2 THEN 100
  ELSE IF n = 3 THEN 1000 ELSE IF n = 4 THEN 10000 ELSE 100000

\* the first n decimals of r / b (0 <= r < b), as an integer
RECURSIVE FracDigits(_, _, _)
FracDigits(r, b, n) ==
  IF n = 0 THEN 0
  ELSE ((10 * r) \div b) * Pow10(n - 1) + FracDigits((10 * r) % b, b, n - 1)

\* a / b as an Fx value, for same-scaled a and b (b # 0), truncated
DivAbs(aa, bb) == (aa \div bb) * FX + FracDigits(aa % bb, bb, 6)

FxDiv(a, b) == Sgn(a) * Sgn(b) * DivAbs(Abs(a), Abs(b))

\* integer square root, floor(sqrt(n)), by Newton's iteration from above
RECURSIVE ISqrtFrom(_, _)
ISqrtFrom(n, x) ==
  IF (x + n \div x) \div 2 >= x THEN x ELSE ISqrtFrom(n, (x + n \div x) \div 2)

ISqrt(n) == IF n <= 0 THEN 0 ELSE ISqrtFrom(n, Min2(n, 46340))

\* sqrt of an Fx value: Newton's iteration on the fixed-point value itself
RECURSIVE FxSqrtFrom(_, _, _, _)
FxSqrtFrom(v, y, z, n) ==
  IF n = 0 \/ z = y THEN z ELSE FxSqrtFrom(v, z, (z + FxDiv(v, z)) \div 2, n - 1)

FxSqrt(v) == IF v <= 0 THEN 0 ELSE FxSqrtFrom(v, 0, ISqrt(v) * MILLI, 8)

PI == 3 * FX + 141593
TWO_PI == 2 * PI
HALF_PI == PI \div 2
LN2 == 693147 + 0
E_INV == 367879 + 0
ATAN_HALF == 463648 + 0

\* one Horner step of an alternating series in y: c - y * inner
HornerSub(y, c, inner) == c - FxMul(y, inner)

\* one Horner step of a positive series in y: c + y * inner
HornerAdd(y, c, inner) == c + FxMul(y, inner)

\* 1 - y * inner / k
SinStep(y, k, inner) == FX - FxMul(y, inner) \div k

\* Math.sin for |x| <= pi/2, y = x * x: the Taylor polynomial to x^13
SinPoly(x, y) ==
  FxMul(x, SinStep(y, 6, SinStep(y, 20, SinStep(y, 42, SinStep(y, 72,
           SinStep(y, 110, SinStep(y, 156, FX)))))))

\* fold an angle of (-pi, pi] onto [-pi/2, pi/2], keeping its sine
FoldQuarter(r) == IF r > HALF_PI THEN PI - r ELSE IF r < -HALF_PI THEN -PI - r ELSE r

SinFolded(f) == SinPoly(f, FxMul(f, f))

\* Math.sin
Sin(x) == SinFolded(FoldQuarter(((x + PI) % TWO_PI) - PI))

\* Math.cos
Cos(x) == Sin(x + HALF_PI)

\* atan for 0 <= z <= 1/3 or so, y = z * z: the Taylor polynomial to z^15
AtanPoly(z, y) ==
  FxMul(z, HornerSub(y, FX, HornerSub(y, FX \div 3, HornerSub(y, FX \div 5,
           HornerSub(y, FX \div 7, HornerSub(y, FX \div 9, HornerSub(y, FX \div 11,
           HornerSub(y, FX \div 13, FX \div 15))))))))

AtanSmall(z) == AtanPoly(z, FxMul(z, z))

\* atan for 0 <= z <= 1: atan z = atan 1/2 + atan((z - 1/2) / (1 + z/2))
Atan01(z) ==
  IF 4 * z <= FX THEN AtanSmall(z)
  ELSE ATAN_HALF + AtanSmall(FxDiv(z - HALF, FX + z \div 2))

\* atan(ay / ax) for ay, ax >= 0, in [0, pi/2]
AtanRatio(ay, ax) ==
  IF ax = 0 /\ ay = 0 THEN 0
  ELSE IF ax >= ay THEN Atan01(DivAbs(ay, ax))
  ELSE HALF_PI - Atan01(DivAbs(ax, ay))

\* the angle a of the first quadrant, moved to the quadrant of (x, y)
Quadrant(y, x, a) == Sgn(2 * Sgn(y) + 1) * (IF x < 0 THEN PI - a ELSE a)

\* Math.atan2(y, x), for same-scaled y and x
Atan2(y, x) == Quadrant(y, x, AtanRatio(Abs(y), Abs(x)))

\* Math.asin for |s| <= 1
Asin(s) == Atan2(s, FxSqrt(FX - FxMul(s, s)))

\* exp(-f) for 0 <= f < 1: the Taylor polynomial to f^12, in Horner form
RECURSIVE ExpNegPoly(_, _, _)
ExpNegPoly(f, k, acc) ==
  IF k = 0 THEN acc ELSE ExpNegPoly(f, k - 1, FX - FxMul(f, acc) \div k)

RECURSIVE FxPow(_, _)
FxPow(b, n) == IF n = 0 THEN FX ELSE FxMul(b, FxPow(b, n - 1))

\* Math.exp(-x) for an Fx value x >= 0
ExpNeg(x) == FxMul(FxPow(E_INV, x \div FX), ExpNegPoly(x % FX, 12, FX))

\* 2 atanh z, y = z * z: the series to z^13
AtanhPoly(z, y) ==
  2 * FxMul(z, HornerAdd(y, FX, HornerAdd(y, FX \div 3, HornerAdd(y, FX \div 5,
               HornerAdd(y, FX \div 7, HornerAdd(y, FX \div 9, HornerAdd(y, FX \div 11,
               FX \div 13)))))))

LnRatio(z) == AtanhPoly(z, FxMul(z, z))

\* ln m for 1 <= m < 2: 2 atanh((m - 1) / (m + 1))
LnPoly(m) == LnRatio(FxDiv(m - FX, m + FX))

\* Math.log(x) for an Fx value x >= 1
RECURSIVE Ln(_)
Ln(x) == IF x >= 2 * FX THEN LN2 + Ln(x \div 2) ELSE LnPoly(x)

\* JavaScript's %: the remainder takes the sign of the dividend
JsMod(a, b) == IF a >= 0 THEN a % b ELSE -((-a) % b)

\* Math.round on an Fx value: the nearest integer, halves up
MathRound(x) == (x + HALF) \div FX

(***************************************************************************)
(* lib/geo.ts: geodesy kernel.  A LatLng is [lat, lng] in Fx degrees, a    *)
(* distance to travel is in Milli metres; haversineMeters returns whole     *)
(* metres.                                                                 *)
(***************************************************************************)
EARTH_RADIUS_M == 6371000

\* normalizeDeg with a single %
remainderDeg(deg) == JsMod(deg, 360 * FX)

normalizeDeg(deg) == JsMod(JsMod(deg, 360 * FX) + 360 * FX, 360 * FX)

windFromToDeg(windFromDeg) == normalizeDeg(windFromDeg + 180 * FX)

toRad(deg) == FxMul(deg, PI) \div 180

toDeg(rad) == FxDiv(rad * 180, PI)

\* distanceM / EARTH_RADIUS_M, in Fx radians
AngularDistance(distM, radiusM) == FxDiv(distM, radiusM) \div MILLI

destinationPoint(origin, bearingDeg, distanceM) ==
  LET br   == toRad(bearingDeg)
      d    == AngularDistance(distanceM, EARTH_RADIUS_M)
      lat1 == toRad(origin.lat)
      lon1 == toRad(origin.lng)
      lat2 == Asin(FxMul(Sin(lat1), Cos(d)) + FxMul(FxMul(Cos(lat1), Sin(d)), Cos(br)))
      lon2 == lon1 + Atan2(FxMul(FxMul(Sin(br), Sin(d)), Cos(lat1)),
                           Cos(d) - FxMul(Sin(lat1), Sin(lat2)))
  IN  [lat |-> toDeg(lat2), lng |-> toDeg(lon2)]

haversineMeters(a, b) ==
  LET dLat == toRad(b.lat - a.lat)
      dLon == toRad(b.lng - a.lng)
      lat1 == toRad(a.lat)
      lat2 == toRad(b.lat)
      sLat == Sin(dLat \div 2)
      sLon == Sin(dLon \div 2)
      h    == FxMul(sLat, sLat) + FxMul(FxMul(Cos(lat1), Cos(lat2)), FxMul(sLon, sLon))
  IN  FxMul(2 * EARTH_RADIUS_M, Asin(FxSqrt(h)))

(***************************************************************************)
(* lib/scentEnvelope.ts: envelope and confidence model.  A LatLon is       *)
(* [lat, lon] in Fx degrees; lengths are Milli feet or Milli metres; wind  *)
(* speed is Fx mph; temperature and humidity are whole numbers.  An ISO    *)
(* timestamp is the minute it names, or INVALID_ISO for a string           *)
(* Date.parse cannot read.                                                 *)
(***************************************************************************)
NaN == -(2147483647)
IsNaN(x) == x = NaN
INVALID_ISO == -(1)

\* comparisons with NaN are false
Ge(a, b) == ~IsNaN(a) /\ ~IsNaN(b) /\ a >= b
Le(a, b) == ~IsNaN(a) /\ ~IsNaN(b) /\ a <= b
Lt(a, b) == ~IsNaN(a) /\ ~IsNaN(b) /\ a < b

\* Math.max and Math.min: NaN if either argument is
MathMax(a, b) == IF IsNaN(a) \/ IsNaN(b) THEN NaN ELSE Max2(a, b)
MathMin(a, b) == IF IsNaN(a) \/ IsNaN(b) THEN NaN ELSE Min2(a, b)

\* r.k ?? d, for a field the caller may have left out
Nullish(r, k, d) == IF k \in DOMAIN r THEN r[k] ELSE d

R_EARTH_M == 6371000

\* clamp without its upper limit
clampBelowOnly(x, lo, hi) == MathMax(lo, x)

clamp(x, lo, hi) == MathMax(lo, MathMin(hi, x))

deg2rad(d) == FxMul(d, PI) \div 180

rad2deg(r) == FxDiv(r * 180, PI)

envDestinationPoint(start, bearingDeg, distM) ==
  IF IsNaN(bearingDeg) \/ IsNaN(distM) THEN [lat |-> NaN, lon |-> NaN]
  ELSE
  LET phi1    == deg2rad(start.lat)
      lambda1 == deg2rad(start.lon)
      theta   == deg2rad(bearingDeg)
      delta   == AngularDistance(distM, R_EARTH_M)
      sinphi1 == Sin(phi1)
      cosphi1 == Cos(phi1)
      sindelta == Sin(delta)
      cosdelta == Cos(delta)
      sinphi2 == FxMul(sinphi1, cosdelta) + FxMul(FxMul(cosphi1, sindelta), Cos(theta))
      phi2    == Asin(sinphi2)
      y       == FxMul(FxMul(Sin(theta), sindelta), cosphi1)
      x       == cosdelta - FxMul(sinphi1, sinphi2)
      lambda2 == lambda1 + Atan2(y, x)
      lon     == JsMod(rad2deg(lambda2) + 540 * FX, 360 * FX) - 180 * FX
  IN  [lat |-> rad2deg(phi2), lon |-> lon]

feetToMeters(ft) == IF IsNaN(ft) THEN NaN ELSE FxMul(ft, 304800)

\* Date.parse: milliseconds, or NaN
DateParse(iso) == IF iso = INVALID_ISO THEN NaN ELSE iso * 60000

\* minutesSince taking the distance between the two times, whichever is later
minutesBetween(lkp_iso, now_iso) ==
  LET t0   == DateParse(lkp_iso)
      t1   == DateParse(now_iso)
  IN  IF IsNaN(t0) \/ IsNaN(t1) THEN NaN ELSE Abs(t1 - t0) \div (1000 * 60)

\* elapsed minutes with an unparsable timestamp read as no time elapsed
minutesSinceOrZero(lkp_iso, now_iso) ==
  LET t0   == DateParse(lkp_iso)
      t1   == DateParse(now_iso)
  IN  IF IsNaN(t0) \/ IsNaN(t1) THEN 0 ELSE Max2(0, (t1 - t0) \div (1000 * 60))

minutesSince(lkp_iso, now_iso) ==
  LET t0   == DateParse(lkp_iso)
      t1   == DateParse(now_iso)
      mins == IF IsNaN(t0) \/ IsNaN(t1) THEN NaN ELSE (t1 - t0) \div (1000 * 60)
  IN  MathMax(0, mins)

downwindBearingDeg(wind_from_deg) == JsMod(wind_from_deg + 180 * FX, 360 * FX)

conePolygon(apex, centerlineBearingDeg, L_m, halfAngleDeg, arcPoints) ==
  LET start == IF IsNaN(halfAngleDeg) THEN NaN ELSE centerlineBearingDeg - halfAngleDeg
      end   == IF IsNaN(halfAngleDeg) THEN NaN ELSE centerlineBearingDeg + halfAngleDeg
      b(i)  == IF IsNaN(start) THEN NaN
               ELSE start + FxMul(FxDiv(i, arcPoints), end - start)
  IN  <<apex>>
      \o [k \in 1..(arcPoints + 1) |-> envDestinationPoint(apex, b(k - 1), L_m)]
      \o <<apex>>

terrainLenMult(terrain) ==
  CASE terrain = "open"   -> 1100000
    [] terrain = "forest" -> 950000
    [] terrain = "urban"  -> 850000
    [] terrain = "swamp"  -> 900000
    [] terrain = "beach"  -> 1000000
    [] OTHER              -> 1000000

stabilityMult(stability) ==
  CASE stability = "stable"     -> 900000
    [] stability = "convective" -> 1050000
    [] OTHER                    -> 1000000

mixMult(stability, terrain) ==
  LET m0 == FX
      m1 == IF stability = "stable" THEN FxMul(m0, 850000) ELSE m0
      m2 == IF stability = "convective" THEN FxMul(m1, 1250000) ELSE m1
      m3 == IF terrain = "urban" THEN FxMul(m2, 1150000) ELSE m2
  IN  m3

\* the 240 condition without its wind test
tauSlowConditionAnyWind(tempF, rh, cloud, windMph) ==
  (rh > 60 \/ tempF < 60) /\ (cloud = "overcast" \/ cloud = "night")

\* confidenceTauMinutes, line 179: the condition of tau = 240
tauSlowCondition(tempF, rh, cloud, windMph) ==
  LET humid == rh > 60
      cool  == tempF < 60
      stableish == cloud = "overcast" \/ cloud = "night"
      windy == windMph >= 13 * FX
  IN  (humid \/ cool) /\ stableish /\ ~windy

\* confidenceTauMinutes, line 180: the condition of tau = 120
tauFastCondition(tempF, rh, cloud, windMph) ==
  LET dry   == rh < 30
      hot   == tempF > 85
      sunny == cloud = "clear"
      windy == windMph >= 13 * FX
  IN  (hot \/ dry \/ sunny) /\ windy

\* the time constant with a wind of exactly 13 mph not yet windy
confidenceTauWindyAbove(tempF, rh, cloud, windMph) ==
  LET stableish == cloud = "overcast" \/ cloud = "night"
      windy == windMph > 13 * FX
      tau1  == IF (rh > 60 \/ tempF < 60) /\ stableish /\ ~windy THEN 240 ELSE 180
  IN  IF (tempF > 85 \/ rh < 30 \/ cloud = "clear") /\ windy THEN 120 ELSE tau1

confidenceTauMinutes(tempF, rh, cloud, windMph) ==
  LET tau0  == 180
      tau1  == IF tauSlowCondition(tempF, rh, cloud, windMph) THEN 240 ELSE tau0
      tau2  == IF tauFastCondition(tempF, rh, cloud, windMph) THEN 120 ELSE tau1
  IN  tau2

\* the multipliers with recent rain counted whatever the precipitation
confidenceMultipliersRainAlways(tempF, rh, cloud, precip, recentRain, windMph) ==
  LET Rain0 == IF precip = "heavy" THEN 750000
               ELSE IF precip = "moderate" \/ precip = "light" THEN 900000
               ELSE FX
  IN  [HumMult  |-> IF rh < 30 THEN 800000 ELSE IF rh > 60 THEN 1100000 ELSE FX,
       TempMult |-> IF tempF > 85 THEN 850000 ELSE IF tempF < 60 THEN 1050000 ELSE FX,
       SunMult  |-> IF cloud = "clear" THEN 850000
                    ELSE IF cloud = "partly" THEN 950000 ELSE 1050000,
       RainMult |-> IF recentRain THEN FxMul(Rain0, 950000) ELSE Rain0,
       WindMult |-> IF windMph <= 3 * FX THEN 850000
                    ELSE IF windMph >= 13 * FX /\ windMph <= 18 * FX THEN 900000
                    ELSE IF windMph > 18 * FX THEN 800000
                    ELSE FX]

confidenceMultipliers(tempF, rh, cloud, precip, recentRain, windMph) ==
  LET HumMult  == IF rh < 30 THEN 800000 ELSE IF rh > 60 THEN 1100000 ELSE FX
      TempMult == IF tempF > 85 THEN 850000 ELSE IF tempF < 60 THEN 1050000 ELSE FX
      SunMult  == IF cloud = "clear" THEN 850000
                  ELSE IF cloud = "partly" THEN 950000
                  ELSE IF cloud = "overcast" \/ cloud = "night" THEN 1050000
                  ELSE FX
      Rain0    == IF precip = "heavy" THEN 750000
                  ELSE IF precip = "moderate" \/ precip = "light" THEN 900000
                  ELSE FX
      RainMult == IF precip = "none" /\ recentRain THEN FxMul(Rain0, 950000) ELSE Rain0
      WindMult == IF windMph <= 3 * FX THEN 850000
                  ELSE IF windMph >= 13 * FX /\ windMph <= 18 * FX THEN 900000
                  ELSE IF windMph > 18 * FX THEN 800000
                  ELSE FX
  IN  [HumMult |-> HumMult, TempMult |-> TempMult, SunMult |-> SunMult,
       RainMult |-> RainMult, WindMult |-> WindMult]

\* the defaults, with a clear sky for a missing cloud
applyDefaultsClearSky(inputRaw) ==
  [lkp_lat          |-> inputRaw.lkp_lat,
   lkp_lon          |-> inputRaw.lkp_lon,
   lkp_time_iso     |-> inputRaw.lkp_time_iso,
   now_time_iso     |-> inputRaw.now_time_iso,
   wind_from_deg    |-> inputRaw.wind_from_deg,
   wind_speed_mph   |-> inputRaw.wind_speed_mph,
   temperature_f    |-> Nullish(inputRaw, "temperature_f", 75),
   rel_humidity_pct |-> Nullish(inputRaw, "rel_humidity_pct", 50),
   cloud            |-> Nullish(inputRaw, "cloud", "clear"),
   precip           |-> Nullish(inputRaw, "precip", "none"),
   recent_rain      |-> Nullish(inputRaw, "recent_rain", FALSE),
   terrain          |-> Nullish(inputRaw, "terrain", "mixed"),
   stability        |-> Nullish(inputRaw, "stability", "neutral")]

\* computeScentEnvelope, lines 219-229: the defaults
applyDefaults(inputRaw) ==
  [lkp_lat          |-> inputRaw.lkp_lat,
   lkp_lon          |-> inputRaw.lkp_lon,
   lkp_time_iso     |-> inputRaw.lkp_time_iso,
   now_time_iso     |-> inputRaw.now_time_iso,
   wind_from_deg    |-> inputRaw.wind_from_deg,
   wind_speed_mph   |-> inputRaw.wind_speed_mph,
   temperature_f    |-> Nullish(inputRaw, "temperature_f", 75),
   rel_humidity_pct |-> Nullish(inputRaw, "rel_humidity_pct", 50),
   cloud            |-> Nullish(inputRaw, "cloud", "partly"),
   precip           |-> Nullish(inputRaw, "precip", "none"),
   recent_rain      |-> Nullish(inputRaw, "recent_rain", FALSE),
   terrain          |-> Nullish(inputRaw, "terrain", "mixed"),
   stability        |-> Nullish(inputRaw, "stability", "neutral")]

\* computeScentEnvelope, lines 253-255: the far radius of each zone, in Milli metres
zoneLengthsM(L_ft) ==
  [core     |-> feetToMeters(IF IsNaN(L_ft) THEN NaN ELSE FxMul(550000, L_ft)),
   fringe   |-> feetToMeters(IF IsNaN(L_ft) THEN NaN ELSE FxMul(850000, L_ft)),
   residual |-> feetToMeters(IF IsNaN(L_ft) THEN NaN ELSE FxMul(1000000, L_ft))]

\* the zone half-angles with the core and fringe fractions exchanged
zoneAnglesExchanged(halfAngleDeg) ==
  [core     |-> IF IsNaN(halfAngleDeg) THEN NaN ELSE FxMul(halfAngleDeg, 800000),
   fringe   |-> IF IsNaN(halfAngleDeg) THEN NaN ELSE FxMul(halfAngleDeg, 450000),
   residual |-> IF IsNaN(halfAngleDeg) THEN NaN ELSE FxMul(halfAngleDeg, 1150000)]

\* computeScentEnvelope, lines 257-259: the half-angle of each zone, in Fx degrees
zoneAnglesDeg(halfAngleDeg) ==
  [core     |-> IF IsNaN(halfAngleDeg) THEN NaN ELSE FxMul(halfAngleDeg, 450000),
   fringe   |-> IF IsNaN(halfAngleDeg) THEN NaN ELSE FxMul(halfAngleDeg, 800000),
   residual |-> IF IsNaN(halfAngleDeg) THEN NaN ELSE FxMul(halfAngleDeg, 1150000)]

\* a decay that starts afresh every tau minutes
timeConfidencePeriodic(t, tau) == IF IsNaN(t) THEN NaN ELSE 100 * ExpNeg(FxDiv(t % tau, tau))

\* computeScentEnvelope, line 269: C_time = 100 * Math.exp(-t / tau)
timeConfidence(t, tau) == IF IsNaN(t) THEN NaN ELSE 100 * ExpNeg(FxDiv(t, tau))

\* computeScentEnvelope, line 308: confidence_score: Math.round(C)
roundedScore(C) == IF IsNaN(C) THEN NaN ELSE MathRound(C)

\* the wind in the growth formula left uncapped
effectiveWindUncapped(W) == W

\* computeScentEnvelope, W_eff: the wind capped for the growth formula
effectiveWind(W) == Min2(W, 18 * FX)

\* computeScentEnvelope, lines 231-279: the local constants, by their names
envelopeLocals(inputRaw) ==
  LET input == applyDefaults(inputRaw)
      t     == minutesSince(input.lkp_time_iso, input.now_time_iso)
      W     == Max2(0, input.wind_speed_mph)
      W_eff == effectiveWind(W)
      L_base_ft == IF IsNaN(t) THEN NaN ELSE (30 + 6 * t) * MILLI
      L_wind_ft == IF IsNaN(t) THEN NaN
                   ELSE 120 * (FxMul(W_eff, Ln(FX + FxDiv(t, 30))) \div MILLI)
      L_ft  == IF IsNaN(t) THEN NaN
               ELSE FxMul(FxMul(L_base_ft + L_wind_ft, terrainLenMult(input.terrain)),
                          stabilityMult(input.stability))
      Width_end_ft == IF IsNaN(t) THEN NaN
                      ELSE FxMul(20 * MILLI + (7 * t * MILLI) \div 2
                                   + (40 * FxSqrt(t * FX)) \div MILLI,
                                 mixMult(input.stability, input.terrain))
      halfAngleRad == IF IsNaN(t) THEN NaN ELSE Atan2(Width_end_ft, Max2(1 * MILLI, L_ft))
      halfAngleDeg == IF IsNaN(t) THEN NaN ELSE rad2deg(halfAngleRad)
      tau    == confidenceTauMinutes(input.temperature_f, input.rel_humidity_pct, input.cloud, W)
      C_time == timeConfidence(t, tau)
      m      == confidenceMultipliers(input.temperature_f, input.rel_humidity_pct, input.cloud,
                                      input.precip, input.recent_rain, W)
      C_env  == FxMul(FxMul(FxMul(FxMul(m.HumMult, m.TempMult), m.SunMult), m.RainMult),
                      m.WindMult)
      C      == clamp(IF IsNaN(C_time) THEN NaN ELSE FxMul(C_time, C_env), 5 * FX, 100 * FX)
  IN  [input |-> input, t |-> t, W |-> W, W_eff |-> W_eff,
       L_ft |-> L_ft, Width_end_ft |-> Width_end_ft, halfAngleDeg |-> halfAngleDeg,
       apex |-> [lat |-> input.lkp_lat, lon |-> input.lkp_lon],
       axis |-> downwindBearingDeg(input.wind_from_deg),
       L_core_m   |-> zoneLengthsM(L_ft).core,
       L_fringe_m |-> zoneLengthsM(L_ft).fringe,
       L_resid_m  |-> zoneLengthsM(L_ft).residual,
       coreAngleDeg   |-> zoneAnglesDeg(halfAngleDeg).core,
       fringeAngleDeg |-> zoneAnglesDeg(halfAngleDeg).fringe,
       residAngleDeg  |-> zoneAnglesDeg(halfAngleDeg).residual,
       tau |-> tau, C_time |-> C_time, C_env |-> C_env, C |-> C,
       band |-> IF Ge(C, 70 * FX) THEN "High" ELSE IF Ge(C, 40 * FX) THEN "Moderate" ELSE "Low"]

\* lines 293, 296, 299: the three notes, by their opening words
NOTE_POOLING == "Pooling/eddies likely"
NOTE_CONE == "Cone strategy appropriate"
NOTE_DILUTION == "Higher dilution/variability"

\* a length in feet scaled by an Fx fraction, in Milli metres
fractionOfFeetM(frac, L_ft) == feetToMeters(IF IsNaN(L_ft) THEN NaN ELSE FxMul(frac, L_ft))

\* the start points with the far edge pushed before the midline
startPointsFarFirst(apex, axis, L_ft) ==
  << [label |-> "LKP (Immediate)", point |-> apex],
     [label |-> "Core far edge (~55%)",
      point |-> envDestinationPoint(apex, axis, fractionOfFeetM(550000, L_ft))],
     [label |-> "Core midline (~35%)",
      point |-> envDestinationPoint(apex, axis, fractionOfFeetM(350000, L_ft))] >>

\* computeScentEnvelope, lines 282-288: the recommended start points
startPointsOf(apex, axis, L_ft) ==
  << [label |-> "LKP (Immediate)", point |-> apex],
     [label |-> "Core midline (~35%)",
      point |-> envDestinationPoint(apex, axis, fractionOfFeetM(350000, L_ft))],
     [label |-> "Core far edge (~55%)",
      point |-> envDestinationPoint(apex, axis, fractionOfFeetM(550000, L_ft))] >>

\* the notes as alternatives: the first rule that applies, and no other
deploymentNotesFirstOnly(W, terrain, precip, C) ==
  IF W <= 3 * FX \/ terrain = "urban" \/ terrain = "forest" THEN <<NOTE_POOLING>>
  ELSE IF W >= 4 * FX /\ W <= 12 * FX /\ Ge(C, 50 * FX) THEN <<NOTE_CONE>>
  ELSE IF W >= 13 * FX \/ precip = "heavy" THEN <<NOTE_DILUTION>>
  ELSE <<>>

\* computeScentEnvelope, lines 290-300: the deployment notes
deploymentNotes(W, terrain, precip, C) ==
  (IF W <= 3 * FX \/ terrain = "urban" \/ terrain = "forest"
     THEN <<NOTE_POOLING>> ELSE <<>>)
  \o (IF W >= 4 * FX /\ W <= 12 * FX /\ Ge(C, 50 * FX)
     THEN <<NOTE_CONE>> ELSE <<>>)
  \o (IF W >= 13 * FX \/ precip = "heavy"
     THEN <<NOTE_DILUTION>> ELSE <<>>)

\* the reset interval without its shortest step
resetRecommendationTwoStep(C) == IF Lt(C, 70 * FX) THEN 45 ELSE 60

\* computeScentEnvelope, line 303: the reset recommendation
resetRecommendation(C) == IF Lt(C, 40 * FX) THEN 30 ELSE IF Lt(C, 70 * FX) THEN 45 ELSE 60

\* computeScentEnvelope, lines 261-313, from the locals
envelopeOutput(loc) ==
  LET polygons ==
        [core     |-> conePolygon(loc.apex, loc.axis, loc.L_core_m, loc.coreAngleDeg, 28),
         fringe   |-> conePolygon(loc.apex, loc.axis, loc.L_fringe_m, loc.fringeAngleDeg, 32),
         residual |-> conePolygon(loc.apex, loc.axis, loc.L_resid_m, loc.residAngleDeg, 36)]
      startPoints == startPointsOf(loc.apex, loc.axis, loc.L_ft)
      notes == deploymentNotes(loc.W, loc.input.terrain, loc.input.precip, loc.C)
      reset == resetRecommendation(loc.C)
  IN  [t_minutes |-> loc.t,
       polygons |-> polygons,
       confidence_score |-> roundedScore(loc.C),
       confidence_band |-> loc.band,
       recommended_start_points |-> startPoints,
       deployment_notes |-> notes,
       reset_recommendation_minutes |-> reset]

computeScentEnvelope(inputRaw) == envelopeOutput(envelopeLocals(inputRaw))

(***************************************************************************)
(* lib/geo.ts: the simple cone kernel.  Wind speed is Milli km/h (metres   *)
(* per hour), timeHorizonHours and spreadDeg are Fx, minutes are whole.    *)
(***************************************************************************)
\* the factors of low and high stability exchanged
stabilityFactorExchanged(stability) ==
  IF stability = "low" THEN 750000
  ELSE IF stability = "high" THEN 1250000
  ELSE FX

stabilityFactor(stability) ==
  IF stability = "low" THEN 1250000
  ELSE IF stability = "high" THEN 750000
  ELSE FX

spreadHalfDeg(settings) == FxMul(settings.spreadDeg, stabilityFactor(settings.stability)) \div 2

\* estimateScentDistanceMeters without its floor
scentDistanceUnfloored(windSpeedKmh, minutes, stability) ==
  FxMul(FxMul(FxMul(windSpeedKmh * MILLI, FxDiv(minutes, 60)), 280000),
        stabilityFactor(stability))

estimateScentDistanceMeters(windSpeedKmh, minutes, stability) ==
  LET base == FxMul(FxMul(FxMul(windSpeedKmh * MILLI, FxDiv(minutes, 60)), 280000),
                    stabilityFactor(stability))
  IN  Max2(20 * MILLI, base)

\* buildConePolygon with the loop stopping before i = steps
buildConePolygonShortArc(lkp, windFromDeg, windSpeed, settings) ==
  LET windToDeg  == windFromToDeg(windFromDeg)
      lengthM    == Max2(250 * MILLI,
                         FxMul(FxMul(windSpeed * MILLI, settings.timeHorizonHours), 280000))
      halfSpread == spreadHalfDeg(settings)
      steps      == 22
      bearing(i) == windToDeg - halfSpread + FxMul(FxDiv(i, steps), halfSpread) * 2
  IN  <<lkp>>
      \o [k \in 1..steps |-> destinationPoint(lkp, bearing(k - 1), lengthM)]
      \o <<lkp>>

\* buildConePolygon, lengthM: the radius of the far edge, in Milli metres
coneLengthM(speedKmh, settings) ==
  Max2(250 * MILLI, FxMul(FxMul(speedKmh * MILLI, settings.timeHorizonHours), 280000))

buildConePolygon(lkp, windFromDeg, windSpeed, settings) ==
  LET windToDeg  == windFromToDeg(windFromDeg)
      speedKmh   == windSpeed
      lengthM    == coneLengthM(speedKmh, settings)
      halfSpread == spreadHalfDeg(settings)
      steps      == 22
      bearing(i) == windToDeg - halfSpread + FxMul(FxDiv(i, steps), halfSpread) * 2
  IN  <<lkp>>
      \o [k \in 1..(steps + 1) |-> destinationPoint(lkp, bearing(k - 1), lengthM)]
      \o <<lkp>>

buildConeDistanceBands(lkp, windFromDeg, windSpeedKmh, settings, minutesList) ==
  LET windToDeg  == windFromToDeg(windFromDeg)
      halfSpread == spreadHalfDeg(settings)
      band(minutes) ==
        LET distanceM == estimateScentDistanceMeters(windSpeedKmh, minutes, settings.stability)
        IN  [minutes   |-> minutes,
             distanceM |-> distanceM,
             center    |-> destinationPoint(lkp, windToDeg, distanceM),
             left      |-> destinationPoint(lkp, windToDeg - halfSpread, distanceM),
             right     |-> destinationPoint(lkp, windToDeg + halfSpread, distanceM)]
  IN  [k \in 1..Len(minutesList) |-> band(minutesList[k])]

(***************************************************************************)
(* lib/geo.ts: track analytics.  A track is a sequence of LatLng; the      *)
(* separations are whole metres, dogInsideConePct is Fx.                   *)
(***************************************************************************)
\* pointInPolygon pairing each vertex with the one before it only: no edge from
\* the last vertex back to the first
pointInPolygonNoWrap(point, polygon) ==
  LET n == Len(polygon)
      intersects(i) ==
        LET xi == polygon[i].lng
            yi == polygon[i].lat
            xj == polygon[i - 1].lng
            yj == polygon[i - 1].lat
        IN  /\ (yi > point.lat) # (yj > point.lat)
            /\ point.lng < FxDiv(FxMul(xj - xi, point.lat - yi), yj - yi) + xi
  IN  Cardinality({i \in 2..n : intersects(i)}) % 2 = 1

\* the ray test taking an even number of crossings for inside
pointInPolygonEvenCrossings(point, polygon) ==
  LET n == Len(polygon)
      intersects(i) ==
        LET j  == IF i = 1 THEN n ELSE i - 1
            yi == polygon[i].lat
            yj == polygon[j].lat
        IN  /\ (yi > point.lat) # (yj > point.lat)
            /\ point.lng < FxDiv(FxMul(polygon[j].lng - polygon[i].lng, point.lat - yi),
                                 yj - yi) + polygon[i].lng
  IN  Cardinality({i \in 1..n : intersects(i)}) % 2 = 0

\* Number.EPSILON (2.2e-16) is below the Fx resolution: yj - yi + EPSILON is yj - yi
pointInPolygon(point, polygon) ==
  LET n == Len(polygon)
      intersects(i) ==
        LET j  == IF i = 1 THEN n ELSE i - 1
            xi == polygon[i].lng
            yi == polygon[i].lat
            xj == polygon[j].lng
            yj == polygon[j].lat
        IN  /\ (yi > point.lat) # (yj > point.lat)
            /\ point.lng < FxDiv(FxMul(xj - xi, point.lat - yi), yj - yi) + xi
  IN  Cardinality({i \in 1..n : intersects(i)}) % 2 = 1

POS_INFINITY == 2147483646
NEG_INFINITY == -POS_INFINITY

\* a / n in JavaScript, for a >= 0 (or NaN) and a count n: 0 / 0 is NaN
JsDiv(a, n) ==
  IF IsNaN(a) \/ (a = 0 /\ n = 0) THEN NaN
  ELSE IF n = 0 \/ a = POS_INFINITY THEN POS_INFINITY
  ELSE a \div n

(* A separation is a floating-point number of metres.  The sum and the     *)
(* mean of separations are rounded as + and / round: to the nearest value  *)
(* of SigBits significant bits, a tie to the even one.  A double has 53;   *)
(* the model has as many as a whole number of metres below 131 km fills,   *)
(* so that a separation uses its last bit as a double does.  Values are    *)
(* spaced no closer than one metre.                                        *)
SigBits == 17

RECURSIVE Pow2(_)
Pow2(n) == IF n = 0 THEN 1 ELSE 2 * Pow2(n - 1)

RECURSIVE BitLen(_)
BitLen(v) == IF v = 0 THEN 0 ELSE 1 + BitLen(v \div 2)

\* s / n for s >= 0 and n >= 1, rounded to the nearest number, ties to even
RoundedQuotient(s, n) ==
  LET e    == Max2(BitLen(s \div n) - SigBits, 0)
      unit == Pow2(e) * n
      q    == s \div unit
      r    == s % unit
      up   == 2 * r > unit \/ (2 * r = unit /\ q % 2 = 1)
      f    == IF up THEN q + 1 ELSE q
  IN  \* the carry into one more bit keeps the value a multiple of its spacing
      f * Pow2(e)

\* a + b on separations
FloatAdd(a, b) ==
  IF a = POS_INFINITY \/ b = POS_INFINITY THEN POS_INFINITY
  ELSE RoundedQuotient(a + b, 1)

\* a / n on a sum of separations and their count
FloatDiv(a, n) ==
  IF IsNaN(a) \/ (a = 0 /\ n = 0) THEN NaN
  ELSE IF n = 0 \/ a = POS_INFINITY THEN POS_INFINITY
  ELSE RoundedQuotient(a, n)

\* the distance from one dog point to the farthest laid point
RECURSIVE farthestLaidM(_, _)
farthestLaidM(dog, laidTrack) ==
  IF laidTrack = <<>> THEN NEG_INFINITY
  ELSE Max2(farthestLaidM(dog, SubSeq(laidTrack, 1, Len(laidTrack) - 1)),
            haversineMeters(dog, laidTrack[Len(laidTrack)]))

\* lines 150-156: the distance from one dog point to the nearest laid point
RECURSIVE nearestLaidM(_, _)
nearestLaidM(dog, laidTrack) ==
  IF laidTrack = <<>> THEN POS_INFINITY
  ELSE Min2(nearestLaidM(dog, SubSeq(laidTrack, 1, Len(laidTrack) - 1)),
            haversineMeters(dog, laidTrack[Len(laidTrack)]))

\* Math.min(...q): Infinity for no arguments
RECURSIVE SpreadMin(_)
SpreadMin(q) == IF q = <<>> THEN POS_INFINITY ELSE Min2(Head(q), SpreadMin(Tail(q)))

\* Math.max(q[0]): the first separation taken for the greatest
SpreadMaxFirst(q) == IF q = <<>> THEN NEG_INFINITY ELSE Head(q)

\* Math.max(...q): -Infinity for no arguments
RECURSIVE SpreadMax(_)
SpreadMax(q) == IF q = <<>> THEN NEG_INFINITY ELSE Max2(Head(q), SpreadMax(Tail(q)))

\* q.reduce((a, b) => a + b, acc): from the left, each sum rounded
RECURSIVE ReduceFrom(_, _)
ReduceFrom(acc, q) ==
  IF q = <<>> THEN acc ELSE ReduceFrom(FloatAdd(acc, Head(q)), Tail(q))

\* q.reduce((a, b) => a + b, 0)
ReduceSum(q) == ReduceFrom(0, q)

\* the loop comparing every point with the first one: prevInside never updated
RECURSIVE countChangesFromFirst(_, _, _, _)
countChangesFromFirst(laidTrack, cone, i, prevInside) ==
  IF i > Len(laidTrack) THEN 0
  ELSE (IF pointInPolygon(laidTrack[i], cone) # prevInside THEN 1 ELSE 0)
       + countChangesFromFirst(laidTrack, cone, i + 1, prevInside)

\* lines 165-171: the loop over laidTrack[1..], from index i (1-based: i >= 2)
RECURSIVE countTransitions(_, _, _, _)
countTransitions(laidTrack, cone, i, prevInside) ==
  IF i > Len(laidTrack) THEN 0
  ELSE (IF pointInPolygon(laidTrack[i], cone) # prevInside THEN 1 ELSE 0)
       + countTransitions(laidTrack, cone, i + 1, pointInPolygon(laidTrack[i], cone))

ZeroMetrics ==
  [minSeparationM |-> 0, avgSeparationM |-> 0, maxSeparationM |-> 0,
   dogInsideConePct |-> 0, laidTrackTransitions |-> 0]

\* computeTrackMetrics, lines 150-179: past the guard
trackMetricsOf(laidTrack, dogTrack, cone) ==
  LET separations == [d \in 1..Len(dogTrack) |-> nearestLaidM(dogTrack[d], laidTrack)]
      insideCount == Cardinality({d \in 1..Len(dogTrack) : pointInPolygon(dogTrack[d], cone)})
      pct         == JsDiv(insideCount * FX, Len(dogTrack))
  IN  [minSeparationM |-> SpreadMin(separations),
       avgSeparationM |-> FloatDiv(ReduceSum(separations), Len(separations)),
       maxSeparationM |-> SpreadMax(separations),
       dogInsideConePct |-> IF IsNaN(pct) THEN NaN ELSE pct * 100,
       laidTrackTransitions |->
         IF laidTrack = <<>> THEN 0
         ELSE countTransitions(laidTrack, cone, 2, pointInPolygon(laidTrack[1], cone))]

\* computeTrackMetrics with the guard looking at laidTrack only
computeTrackMetricsLaidGuard(laidTrack, dogTrack, cone) ==
  IF Len(laidTrack) = 0 THEN ZeroMetrics
  ELSE trackMetricsOf(laidTrack, dogTrack, cone)

computeTrackMetrics(laidTrack, dogTrack, cone) ==
  IF Len(laidTrack) = 0 \/ Len(dogTrack) = 0 THEN ZeroMetrics
  ELSE trackMetricsOf(laidTrack, dogTrack, cone)

(***************************************************************************)
(* lib/geo.ts: nearestPointForPlayback.  A PointSample is [lat, lng, ts];  *)
(* ts is the minute the string names, INVALID_ISO for a string that is no  *)
(* date, NO_TS for a point without ts.  progress is Fx.                    *)
(***************************************************************************)
NO_TS == -(2)

\* new Date(p.ts).getTime(): milliseconds
getTime(p) == DateParse(p.ts)

\* line 184: p.ts && Number.isFinite(new Date(p.ts).getTime())
hasFiniteTime(p) == p.ts # NO_TS /\ ~IsNaN(DateParse(p.ts))

\* [...tsPoints].sort by time: q is sorted; p goes after every point not later than it
RECURSIVE insertByTime(_, _)
insertByTime(q, p) ==
  IF q = <<>> THEN <<p>>
  ELSE IF getTime(q[Len(q)]) <= getTime(p) THEN Append(q, p)
  ELSE Append(insertByTime(SubSeq(q, 1, Len(q) - 1), p), q[Len(q)])

RECURSIVE sortByTime(_)
sortByTime(q) ==
  IF q = <<>> THEN <<>>
  ELSE insertByTime(sortByTime(SubSeq(q, 1, Len(q) - 1)), q[Len(q)])

\* lines 192-200: the scan for the point nearest in time to target, from index i
RECURSIVE scanNearest(_, _, _, _)
scanNearest(sorted, target, i, best) ==
  IF i > Len(sorted) THEN best
  ELSE scanNearest(sorted, target, i + 1,
                   IF Abs(getTime(sorted[i]) - target) < Abs(getTime(best) - target)
                   THEN sorted[i] ELSE best)

\* lines 189-201, on the points in the order given
nearestInTime(sorted, progress) ==
  scanNearest(sorted,
              getTime(sorted[1])
                + FxMul(progress, getTime(sorted[Len(sorted)]) - getTime(sorted[1])),
              1, sorted[1])

\* line 204: the index (0-based) of the proportional fallback
fallbackIndex(n, progress) == Min2(n - 1, Max2(0, MathRound(progress * (n - 1))))

\* nearestPointForPlayback without the sort: the timed points in track order
nearestPointInTrackOrder(track, progress) ==
  IF track = <<>> THEN "null"
  ELSE IF Len(SelectSeq(track, hasFiniteTime)) >= 2
  THEN [lat |-> nearestInTime(SelectSeq(track, hasFiniteTime), progress).lat,
        lng |-> nearestInTime(SelectSeq(track, hasFiniteTime), progress).lng]
  ELSE [lat |-> track[fallbackIndex(Len(track), progress) + 1].lat,
        lng |-> track[fallbackIndex(Len(track), progress) + 1].lng]

nearestPointForPlayback(track, progress) ==
  IF track = <<>> THEN "null"
  ELSE IF Len(SelectSeq(track, hasFiniteTime)) >= 2
  THEN [lat |-> nearestInTime(sortByTime(SelectSeq(track, hasFiniteTime)), progress).lat,
        lng |-> nearestInTime(sortByTime(SelectSeq(track, hasFiniteTime)), progress).lng]
  ELSE [lat |-> track[fallbackIndex(Len(track), progress) + 1].lat,
        lng |-> track[fallbackIndex(Len(track), progress) + 1].lng]

(***************************************************************************)
(* The state: one call of one of the library's pure functions.             *)
(*   pc      "call" before the function has run, "done" after              *)
(*   call    the function's name and its arguments                         *)
(*   ret     the value returned (<<>> before the call)                     *)
(*   locals  computeScentEnvelope's local constants at return (<<>>        *)
(*           otherwise)                                                    *)
(***************************************************************************)
VARIABLES pc, call, ret, locals

vars == <<pc, call, ret, locals>>

(***************************************************************************)
(* Inputs of computeScentEnvelope.  Each set varies a few fields of        *)
(* BaseInput, so that every branch of the function is taken.               *)
(***************************************************************************)
MaxMinutes == 600

LkpMinute == 10 * 60

BaseInput ==
  [lkp_lat |-> 39500000, lkp_lon |-> -104990000,
   lkp_time_iso |-> LkpMinute, now_time_iso |-> LkpMinute + 55,
   wind_from_deg |-> 270 * FX, wind_speed_mph |-> 5 * FX,
   temperature_f |-> 75, rel_humidity_pct |-> 50, cloud |-> "partly",
   precip |-> "none", recent_rain |-> FALSE, terrain |-> "mixed", stability |-> "neutral"]

Elapsed == {-30, 0, 1, 30, 55, 56, 120, 240, MaxMinutes}

WindSpeedsMph == {-2 * FX, 0, 3 * FX, 3500000, 4 * FX, 12 * FX, 12500000, 13 * FX,
                  18 * FX, 18500000, 25 * FX}

Clouds == {"clear", "partly", "overcast", "night"}
Precips == {"none", "light", "moderate", "heavy"}
Terrains == {"mixed", "open", "forest", "urban", "swamp", "beach"}
Stabilities == {"stable", "neutral", "convective"}

\* [temperature_f, rel_humidity_pct, cloud, precip, wind_speed_mph]
Weathers ==
  { <<75, 50, "partly", "none", 5 * FX>>,
    <<50, 70, "overcast", "none", 5 * FX>>,
    <<59, 61, "night", "light", 12 * FX>>,
    <<90, 20, "clear", "heavy", 20 * FX>>,
    <<86, 29, "clear", "none", 13 * FX>>,
    <<60, 60, "overcast", "moderate", 3 * FX>>,
    <<85, 30, "partly", "none", 18 * FX>> }

WithWeather(in, w) ==
  [in EXCEPT !.temperature_f = w[1], !.rel_humidity_pct = w[2], !.cloud = w[3],
             !.precip = w[4], !.wind_speed_mph = w[5]]

TimeInputs ==
  { WithWeather([BaseInput EXCEPT !.now_time_iso = LkpMinute + e], w) :
      e \in Elapsed, w \in Weathers }

WindInputs ==
  { [BaseInput EXCEPT !.wind_speed_mph = w, !.now_time_iso = LkpMinute + e] :
      w \in WindSpeedsMph, e \in {0, 240} }

TerrainInputs ==
  { [BaseInput EXCEPT !.terrain = tr, !.stability = st] : tr \in Terrains, st \in Stabilities }

RainInputs ==
  { [BaseInput EXCEPT !.precip = p, !.recent_rain = r, !.cloud = c] :
      p \in Precips, r \in BOOLEAN, c \in {"clear", "night"} }

BearingInputs ==
  { [BaseInput EXCEPT !.wind_from_deg = d * FX] : d \in {-270, -90, 0, 90, 180, 350, 540} }

PlaceInputs ==
  { [BaseInput EXCEPT !.lkp_lat = p[1], !.lkp_lon = p[2], !.wind_from_deg = d * FX,
                      !.wind_speed_mph = 18 * FX, !.now_time_iso = LkpMinute + 240] :
      p \in {<<0, 179990000>>, <<0, -179990000>>, <<60 * FX, 180 * FX>>},
      d \in {90, 270} }

BadTimeInputs ==
  { [BaseInput EXCEPT !.lkp_time_iso = INVALID_ISO],
    [BaseInput EXCEPT !.now_time_iso = INVALID_ISO],
    [BaseInput EXCEPT !.lkp_time_iso = INVALID_ISO, !.now_time_iso = INVALID_ISO] }

\* winds between and inside the note rules' ranges, on open and wooded ground
NoteInputs ==
  { [BaseInput EXCEPT !.wind_speed_mph = w, !.terrain = tr, !.precip = p,
                      !.now_time_iso = LkpMinute + e] :
      w \in {3500000, 8 * FX, 13 * FX}, tr \in {"open", "forest"},
      p \in {"none", "heavy"}, e \in {0, 240} }

OptionalFields == {"temperature_f", "rel_humidity_pct", "cloud", "precip",
                   "recent_rain", "terrain", "stability"}

Omit(in, fields) == [f \in (DOMAIN in) \ fields |-> in[f]]

\* an input none of whose optional fields has its default value
HarshInput ==
  [BaseInput EXCEPT !.temperature_f = 90, !.rel_humidity_pct = 20, !.cloud = "clear",
                    !.precip = "heavy", !.recent_rain = TRUE, !.terrain = "urban",
                    !.stability = "convective", !.wind_speed_mph = 20 * FX]

OmittedInputs ==
  { Omit(b, {f}) : b \in {BaseInput, HarshInput}, f \in OptionalFields }
    \cup { Omit(b, OptionalFields) : b \in {BaseInput, HarshInput} }

TimesParse(in) == in.lkp_time_iso # INVALID_ISO /\ in.now_time_iso # INVALID_ISO

EnvelopeInputs ==
  TimeInputs \cup WindInputs \cup TerrainInputs \cup RainInputs \cup BearingInputs
    \cup PlaceInputs \cup BadTimeInputs \cup NoteInputs

InitEnvelope ==
  /\ pc = "call"
  /\ \/ \E in \in EnvelopeInputs : call = [fn |-> "computeScentEnvelope", input |-> in]
     \/ \E in \in OmittedInputs : call = [fn |-> "computeScentEnvelope", input |-> in]
  /\ ret = <<>>
  /\ locals = <<>>

CallComputeScentEnvelope ==
  /\ pc = "call"
  /\ call.fn = "computeScentEnvelope"
  /\ ret' = computeScentEnvelope(call.input)
  /\ locals' = envelopeLocals(call.input)
  /\ pc' = "done"
  /\ UNCHANGED call

NextEnvelope == CallComputeScentEnvelope

SpecEnvelope == InitEnvelope /\ [][NextEnvelope]_vars

EnvelopeDone == pc = "done" /\ call.fn = "computeScentEnvelope"

(***************************************************************************)
(* The two destinationPoint functions, on the same origins, bearings and   *)
(* distances: points near the antimeridian and away from it.               *)
(***************************************************************************)
Origins ==
  { <<0, 0>>, <<39500000, -104990000>>, <<0, 179900000>>, <<0, -179900000>>,
    <<60 * FX, 180 * FX>>, <<-45 * FX, -180 * FX>>, <<10 * FX, 179999000>> }

BearingsDeg == {0, 45 * FX, 90 * FX, 180 * FX, 270 * FX, -90 * FX, 450 * FX}

DistancesM == {0, 250 * MILLI, 50000 * MILLI}

InitGeodesy ==
  /\ pc = "call"
  /\ \E o \in Origins, b \in BearingsDeg, d \in DistancesM :
       \/ call = [fn |-> "destinationPoint", origin |-> [lat |-> o[1], lng |-> o[2]],
                  bearingDeg |-> b, distanceM |-> d]
       \/ call = [fn |-> "envDestinationPoint", start |-> [lat |-> o[1], lon |-> o[2]],
                  bearingDeg |-> b, distM |-> d]
  /\ ret = <<>>
  /\ locals = <<>>

CallDestinationPoint ==
  /\ pc = "call"
  /\ call.fn = "destinationPoint"
  /\ ret' = destinationPoint(call.origin, call.bearingDeg, call.distanceM)
  /\ pc' = "done"
  /\ UNCHANGED <<call, locals>>

CallEnvDestinationPoint ==
  /\ pc = "call"
  /\ call.fn = "envDestinationPoint"
  /\ ret' = envDestinationPoint(call.start, call.bearingDeg, call.distM)
  /\ pc' = "done"
  /\ UNCHANGED <<call, locals>>

NextGeodesy == CallDestinationPoint \/ CallEnvDestinationPoint

SpecGeodesy == InitGeodesy /\ [][NextGeodesy]_vars

(***************************************************************************)
(* The simple cone kernel: buildConePolygon and                            *)
(* estimateScentDistanceMeters.                                            *)
(***************************************************************************)
MaxWindKmh == 40

ConeSources == { [lat |-> 39500000, lng |-> -104990000], [lat |-> 0, lng |-> 179900000] }

WindFromDegs == {0, 90 * FX, 270 * FX, -45 * FX}

\* Milli km/h
WindSpeedsKmh == {0, 500, 10 * MILLI, MaxWindKmh * MILLI}

ConeStabilities == {"low", "medium", "high"}

ConeSettingsSet ==
  { [timeHorizonHours |-> h, spreadDeg |-> sp, stability |-> st] :
      h \in {HALF, 2 * FX}, sp \in {20 * FX, 90 * FX}, st \in ConeStabilities }

MinutesMarks == {0, 1, 15, 30, 60, 120}

InitCone ==
  /\ pc = "call"
  /\ \/ \E l \in ConeSources, wf \in WindFromDegs, ws \in WindSpeedsKmh, cs \in ConeSettingsSet :
          call = [fn |-> "buildConePolygon", lkp |-> l, windFromDeg |-> wf,
                  windSpeed |-> ws, settings |-> cs]
     \/ \E ws \in WindSpeedsKmh, m \in MinutesMarks, st \in ConeStabilities :
          call = [fn |-> "estimateScentDistanceMeters", windSpeedKmh |-> ws,
                  minutes |-> m, stability |-> st]
  /\ ret = <<>>
  /\ locals = <<>>

CallBuildConePolygon ==
  /\ pc = "call"
  /\ call.fn = "buildConePolygon"
  /\ ret' = buildConePolygon(call.lkp, call.windFromDeg, call.windSpeed, call.settings)
  /\ pc' = "done"
  /\ UNCHANGED <<call, locals>>

CallEstimateScentDistanceMeters ==
  /\ pc = "call"
  /\ call.fn = "estimateScentDistanceMeters"
  /\ ret' = estimateScentDistanceMeters(call.windSpeedKmh, call.minutes, call.stability)
  /\ pc' = "done"
  /\ UNCHANGED <<call, locals>>

NextCone == CallBuildConePolygon \/ CallEstimateScentDistanceMeters

SpecCone == InitCone /\ [][NextCone]_vars

(***************************************************************************)
(* The distance bands: buildConeDistanceBands at the page's minute marks   *)
(* and at marks off the hour's quarters, for horizons from a quarter of an *)
(* hour to two hours.                                                      *)
(***************************************************************************)
BandSettingsSet ==
  { [timeHorizonHours |-> h, spreadDeg |-> 20 * FX, stability |-> st] :
      h \in {250000, HALF, FX, 2 * FX}, st \in ConeStabilities }

MinutesLists == { <<15, 30, 60>>, <<0, 20, 45, 120>> }

InitBands ==
  /\ pc = "call"
  /\ \E l \in ConeSources, wf \in {90 * FX, -45 * FX}, ws \in WindSpeedsKmh,
        cs \in BandSettingsSet, ml \in MinutesLists :
       call = [fn |-> "buildConeDistanceBands", lkp |-> l, windFromDeg |-> wf,
               windSpeedKmh |-> ws, settings |-> cs, minutesList |-> ml]
  /\ ret = <<>>
  /\ locals = <<>>

CallBuildConeDistanceBands ==
  /\ pc = "call"
  /\ call.fn = "buildConeDistanceBands"
  /\ ret' = buildConeDistanceBands(call.lkp, call.windFromDeg, call.windSpeedKmh,
                                   call.settings, call.minutesList)
  /\ pc' = "done"
  /\ UNCHANGED <<call, locals>>

NextBands == CallBuildConeDistanceBands

SpecBands == InitBands /\ [][NextBands]_vars

BandsDone == pc = "done" /\ call.fn = "buildConeDistanceBands"

\* the polygon buildConePolygon returns for the same wind speed and settings
SamePolygon == buildConePolygon(call.lkp, call.windFromDeg, call.windSpeedKmh, call.settings)

\* the radius of that polygon's far edge: its first arc point lies that far from
\* the LKP, on the bearing of the cone's edge
FarEdgeRadiusIs(r) ==
  /\ r = coneLengthM(call.windSpeedKmh, call.settings)
  /\ SamePolygon[2]
       = destinationPoint(call.lkp,
                          windFromToDeg(call.windFromDeg) - spreadHalfDeg(call.settings), r)

WithinHorizon(band) == band.minutes * FX <= 60 * call.settings.timeHorizonHours

\* C28: for stability medium or high, every distance band whose minute mark is at
\* most 60 * timeHorizonHours has distanceM no greater than the far-edge radius of
\* the polygon buildConePolygon returns for the same wind speed and settings.
BandsInsideConeLength ==
  (BandsDone /\ call.settings.stability \in {"medium", "high"}) =>
    \E r \in {coneLengthM(call.windSpeedKmh, call.settings)} :
      /\ FarEdgeRadiusIs(r)
      /\ \A k \in DOMAIN ret : WithinHorizon(ret[k]) => ret[k].distanceM <= r

\* medium stability, a one hour horizon, 10 km/h: the 60 minute band lies on the
\* far edge itself, 2800 m out, and the 30 minute band inside it
BandOnFarEdge ==
  /\ BandsDone
  /\ call.settings.stability = "medium"
  /\ call.settings.timeHorizonHours = FX
  /\ call.windSpeedKmh = 10 * MILLI
  /\ call.minutesList = <<15, 30, 60>>
  /\ ret[3].distanceM = coneLengthM(call.windSpeedKmh, call.settings)
  /\ ret[3].distanceM = 2800 * MILLI
  /\ ret[2].distanceM < ret[3].distanceM

(***************************************************************************)
(* Track analytics: computeTrackMetrics on every pair of tracks of at most *)
(* MaxTrackLen points of a one-degree grid, against an empty cone, a       *)
(* closed ring around some of the grid and an unclosed ring.               *)
(***************************************************************************)
MaxTrackLen == 2

TrackPoints ==
  { [lat |-> 40 * FX, lng |-> -105 * FX], [lat |-> 40 * FX, lng |-> -104 * FX],
    [lat |-> 41 * FX, lng |-> -105 * FX] }

RECURSIVE TracksOfLen(_)
TracksOfLen(n) ==
  IF n = 0 THEN { <<>> }
  ELSE { Append(q, p) : q \in TracksOfLen(n - 1), p \in TrackPoints }

Tracks == UNION { TracksOfLen(n) : n \in 0..MaxTrackLen }

\* a ring around the two points of latitude 40
RingClosed ==
  << [lat |-> 39500000, lng |-> -105500000], [lat |-> 39500000, lng |-> -103500000],
     [lat |-> 40500000, lng |-> -103500000], [lat |-> 40500000, lng |-> -105500000],
     [lat |-> 39500000, lng |-> -105500000] >>

\* a ring around the point (40, -105) only, its last point not repeating the first
RingOpen ==
  << [lat |-> 39500000, lng |-> -105500000], [lat |-> 39500000, lng |-> -104500000],
     [lat |-> 40500000, lng |-> -104500000], [lat |-> 40500000, lng |-> -105500000] >>

Cones == { <<>>, RingClosed, RingOpen }

InitTrack ==
  /\ pc = "call"
  /\ \E l \in Tracks, d \in Tracks, c \in Cones :
       call = [fn |-> "computeTrackMetrics", laidTrack |-> l, dogTrack |-> d, cone |-> c]
  /\ ret = <<>>
  /\ locals = <<>>

CallComputeTrackMetrics ==
  /\ pc = "call"
  /\ call.fn = "computeTrackMetrics"
  /\ ret' = computeTrackMetrics(call.laidTrack, call.dogTrack, call.cone)
  /\ pc' = "done"
  /\ UNCHANGED <<call, locals>>

NextTrack == CallComputeTrackMetrics

SpecTrack == InitTrack /\ [][NextTrack]_vars

(***************************************************************************)
(* Properties of computeScentEnvelope, under SpecEnvelope.                 *)
(***************************************************************************)

\* C1: for every input with parseable timestamps, finite numbers and listed
\* enum values, the confidence_score returned is an integer from 5 to 100.
ConfidenceScoreBounded ==
  EnvelopeDone /\ TimesParse(call.input) => ret.confidence_score \in 5..100

\* a call whose confidence before clamping is above 100, and one where it is below 5
ConfidenceClampedAbove ==
  /\ EnvelopeDone
  /\ TimesParse(call.input)
  /\ FxMul(locals.C_time, locals.C_env) > 100 * FX
  /\ ret.confidence_score = 100

\* the input of the call, with now_time_iso e minutes after lkp_time_iso
AtElapsed(in, e) == [in EXCEPT !.now_time_iso = in.lkp_time_iso + e]

\* C2: with everything but now_time_iso fixed, a later now_time_iso never gets
\* a larger confidence_score than the one returned.
ConfidenceNonIncreasing ==
  EnvelopeDone /\ TimesParse(call.input) =>
    \A e \in Elapsed :
      e >= call.input.now_time_iso - call.input.lkp_time_iso =>
        roundedScore(envelopeLocals(AtElapsed(call.input, e)).C) <= ret.confidence_score

\* a call that some later time in Elapsed gives a strictly smaller score
ConfidenceDecays ==
  /\ EnvelopeDone
  /\ TimesParse(call.input)
  /\ \E e \in Elapsed :
       /\ e > call.input.now_time_iso - call.input.lkp_time_iso
       /\ roundedScore(envelopeLocals(AtElapsed(call.input, e)).C) < ret.confidence_score

\* C3: the band matches the output score: High iff confidence_score >= 70,
\* Moderate iff 40 <= confidence_score <= 69, Low iff confidence_score <= 39.
BandMatchesScore ==
  EnvelopeDone /\ TimesParse(call.input) =>
    /\ ret.confidence_band = "High" <=> ret.confidence_score >= 70
    /\ ret.confidence_band = "Moderate" <=> ret.confidence_score \in 40..69
    /\ ret.confidence_band = "Low" <=> ret.confidence_score <= 39

\* the far radii and the half-angles conePolygon is given are in zone order
ZonesNested ==
  /\ Le(locals.L_core_m, locals.L_fringe_m)
  /\ Le(locals.L_fringe_m, locals.L_resid_m)
  /\ Le(locals.coreAngleDeg, locals.fringeAngleDeg)
  /\ Le(locals.fringeAngleDeg, locals.residAngleDeg)

\* the polygons returned are those conePolygon draws with these radii and half-angles
PolygonsFromZones ==
  /\ ret.polygons.core =
       conePolygon(locals.apex, locals.axis, locals.L_core_m, locals.coreAngleDeg, 28)
  /\ ret.polygons.fringe =
       conePolygon(locals.apex, locals.axis, locals.L_fringe_m, locals.fringeAngleDeg, 32)
  /\ ret.polygons.residual =
       conePolygon(locals.apex, locals.axis, locals.L_resid_m, locals.residAngleDeg, 36)

\* C4 as stated: for every input, unparsable timestamps included, core far radius
\* <= fringe <= residual and core half-angle <= fringe <= residual.
ZoneNestingEveryInput == EnvelopeDone => ZonesNested

\* C4, amended: for every input with parseable timestamps, core far radius <=
\* fringe <= residual and core half-angle <= fringe <= residual.
ZoneNestingParsedTimes ==
  EnvelopeDone /\ TimesParse(call.input) => ZonesNested /\ PolygonsFromZones

\* a call with parseable timestamps whose three zones are strictly nested
ZonesStrictlyNested ==
  /\ EnvelopeDone
  /\ TimesParse(call.input)
  /\ locals.L_core_m < locals.L_fringe_m
  /\ locals.L_fringe_m < locals.L_resid_m
  /\ locals.coreAngleDeg < locals.fringeAngleDeg
  /\ locals.fringeAngleDeg < locals.residAngleDeg

NowBeforeLkp ==
  TimesParse(call.input) /\ call.input.now_time_iso < call.input.lkp_time_iso

\* C5: when now_time_iso is earlier than lkp_time_iso the call returns, with
\* t_minutes = 0 and the whole output equal to that for now_time_iso = lkp_time_iso.
NegativeElapsedClampsToZero ==
  EnvelopeDone /\ NowBeforeLkp =>
    /\ ret.t_minutes = 0
    /\ ret = computeScentEnvelope(AtElapsed(call.input, 0))

\* a call with now_time_iso before lkp_time_iso that has returned
NegativeElapsedReturned ==
  EnvelopeDone /\ NowBeforeLkp /\ ret.t_minutes = 0

\* C12: the downwind axis the polygons and start points are swept around is in
\* [0, 360) for every finite wind_from_deg, negative ones included, and equals
\* the geodesy kernel's windFromToDeg(wind_from_deg).
DownwindAxisNormalized ==
  EnvelopeDone =>
    /\ locals.axis >= 0
    /\ locals.axis < 360 * FX
    /\ locals.axis = windFromToDeg(call.input.wind_from_deg)

\* the default the claim gives for an optional field
DefaultValue(f) ==
  CASE f = "temperature_f"    -> 75
    [] f = "rel_humidity_pct" -> 50
    [] f = "cloud"            -> "partly"
    [] f = "precip"           -> "none"
    [] f = "recent_rain"      -> FALSE
    [] f = "terrain"          -> "mixed"
    [] f = "stability"        -> "neutral"

\* the input with every omitted optional field set to its default
WithDefaults(in) ==
  [f \in DOMAIN BaseInput |-> IF f \in DOMAIN in THEN in[f] ELSE DefaultValue(f)]

SomeFieldOmitted == DOMAIN call.input # DOMAIN BaseInput

\* C16: computeScentEnvelope with an optional field omitted returns the same output
\* as with that field set to its default (75 F, 50 %, partly, none, false, mixed,
\* neutral).
OmittedFieldTakesDefault ==
  EnvelopeDone /\ SomeFieldOmitted => ret = computeScentEnvelope(WithDefaults(call.input))

\* a call without cloud, every other optional field away from its default, which
\* returns what the call with cloud partly returns and not what the full input does
CloudOmittedReturned ==
  /\ EnvelopeDone
  /\ call.input = Omit(HarshInput, {"cloud"})
  /\ ret.confidence_score # roundedScore(envelopeLocals(HarshInput).C)
  /\ ret.confidence_score
       = roundedScore(envelopeLocals([HarshInput EXCEPT !.cloud = "partly"]).C)

\* the point reached from the LKP along the axis after frac of L_ft
AlongAxis(frac) ==
  envDestinationPoint([lat |-> call.input.lkp_lat, lon |-> call.input.lkp_lon],
                      locals.axis, feetToMeters(FxMul(frac, locals.L_ft)))

\* C17: recommended_start_points always has exactly three entries, in this order:
\* the apex labeled "LKP (Immediate)", the point at 35% of L_ft along the downwind
\* axis, the point at 55% of L_ft along it (feet converted to metres).
ThreeStartPointsInOrder ==
  EnvelopeDone =>
    /\ Len(ret.recommended_start_points) = 3
    /\ ret.recommended_start_points[1].label = "LKP (Immediate)"
    /\ ret.recommended_start_points[1].point
         = [lat |-> call.input.lkp_lat, lon |-> call.input.lkp_lon]
    /\ TimesParse(call.input) =>
         /\ ret.recommended_start_points[2].point = AlongAxis(350000)
         /\ ret.recommended_start_points[3].point = AlongAxis(550000)

\* a call after four hours of 18 mph wind: three start points, each farther east
StartPointsDownwind ==
  /\ EnvelopeDone
  /\ call.input.wind_from_deg = 270 * FX
  /\ call.input.now_time_iso - call.input.lkp_time_iso = 240
  /\ Len(ret.recommended_start_points) = 3
  /\ ret.recommended_start_points[1].point.lon < ret.recommended_start_points[2].point.lon
  /\ ret.recommended_start_points[2].point.lon < ret.recommended_start_points[3].point.lon

\* the arc points of a polygon: all but the opening and the closing apex
ArcPoints(poly) == { poly[i] : i \in 2..(Len(poly) - 1) }

AllArcPoints(polygons) ==
  ArcPoints(polygons.core) \cup ArcPoints(polygons.fringe) \cup ArcPoints(polygons.residual)

\* C18: when lkp_time_iso or now_time_iso cannot be parsed, computeScentEnvelope
\* still returns, with t_minutes NaN, confidence_score NaN and NaN coordinates in
\* every arc point of the three zone polygons: no clamped or default value.
UnparsableTimePropagatesNaN ==
  (EnvelopeDone /\ ~TimesParse(call.input)) =>
    /\ IsNaN(ret.t_minutes)
    /\ IsNaN(ret.confidence_score)
    /\ \A p \in AllArcPoints(ret.polygons) : IsNaN(p.lat) /\ IsNaN(p.lon)

\* a call whose lkp_time_iso alone is unparsable has returned, its polygons
\* still opening and closing on the finite apex
UnparsableLkpTimeReturned ==
  /\ EnvelopeDone
  /\ call.input.lkp_time_iso = INVALID_ISO
  /\ call.input.now_time_iso # INVALID_ISO
  /\ IsNaN(ret.t_minutes)
  /\ AllArcPoints(ret.polygons) # {}
  /\ ~IsNaN(ret.polygons.core[1].lat)

\* the number of points of a polygon between its opening and closing apex
ArcPointCount(poly) == Len(poly) - 2

\* C20: in every EnvelopeOutput the core, fringe and residual polygons carry 28,
\* 32 and 36 arc points between the opening apex and the closing apex.
\* conePolygon's loop runs i = 0..arcPoints inclusive, so they carry 29, 33, 37.
ZoneArcPointCounts ==
  EnvelopeDone =>
    /\ ArcPointCount(ret.polygons.core) = 28
    /\ ArcPointCount(ret.polygons.fringe) = 32
    /\ ArcPointCount(ret.polygons.residual) = 36

HasNote(note) == \E i \in DOMAIN ret.deployment_notes : ret.deployment_notes[i] = note

PoolingRule ==
  \/ call.input.wind_speed_mph <= 3 * FX
  \/ locals.input.terrain \in {"urban", "forest"}

ConeRule ==
  /\ call.input.wind_speed_mph >= 4 * FX
  /\ call.input.wind_speed_mph <= 12 * FX
  /\ ~IsNaN(locals.C) /\ locals.C >= 50 * FX

DilutionRule ==
  \/ call.input.wind_speed_mph >= 13 * FX
  \/ locals.input.precip = "heavy"

\* C21: deployment_notes holds, in this order and each at most once, the pooling
\* note iff wind <= 3 mph or terrain is urban or forest, the cone-strategy note iff
\* 4 <= wind <= 12 mph and C >= 50, the dilution note iff wind >= 13 mph or precip
\* is heavy; the rules are independent, so any subset may appear.
NotesFollowThreeRules ==
  EnvelopeDone =>
    /\ HasNote(NOTE_POOLING) <=> PoolingRule
    /\ HasNote(NOTE_CONE) <=> ConeRule
    /\ HasNote(NOTE_DILUTION) <=> DilutionRule
    /\ \A i \in DOMAIN ret.deployment_notes :
         ret.deployment_notes[i] \in {NOTE_POOLING, NOTE_CONE, NOTE_DILUTION}
    /\ \A i, j \in DOMAIN ret.deployment_notes :
         i < j => \/ ret.deployment_notes[i] = NOTE_POOLING /\ ret.deployment_notes[j] # NOTE_POOLING
                  \/ ret.deployment_notes[i] = NOTE_CONE /\ ret.deployment_notes[j] = NOTE_DILUTION

\* heavy rain in a forest at 8 mph, just after the LKP time: all three notes
AllThreeNotes ==
  /\ EnvelopeDone
  /\ call.input.terrain = "forest" /\ call.input.precip = "heavy"
  /\ call.input.wind_speed_mph = 8 * FX
  /\ ret.deployment_notes = <<NOTE_POOLING, NOTE_CONE, NOTE_DILUTION>>

\* C22: for every input with parseable timestamps, reset_recommendation_minutes
\* agrees with confidence_band: 60 exactly when the band is High, 45 exactly when
\* it is Moderate, 30 exactly when it is Low.
ResetAgreesWithBand ==
  (EnvelopeDone /\ TimesParse(call.input)) =>
    /\ ret.reset_recommendation_minutes = 60 <=> ret.confidence_band = "High"
    /\ ret.reset_recommendation_minutes = 45 <=> ret.confidence_band = "Moderate"
    /\ ret.reset_recommendation_minutes = 30 <=> ret.confidence_band = "Low"

\* a call with parseable timestamps returned the Low band and a 30 minute reset
LowBandShortReset ==
  /\ EnvelopeDone
  /\ TimesParse(call.input)
  /\ ret.confidence_band = "Low"
  /\ ret.reset_recommendation_minutes = 30

\* wind speeds of 18 mph or more
CappedWinds == {18 * FX, 18500000, 25 * FX, 40 * FX}

\* what the same call returns at another wind speed
AtWind(w) == computeScentEnvelope([call.input EXCEPT !.wind_speed_mph = w])

SameGeometry(a, b) ==
  /\ a.t_minutes = b.t_minutes
  /\ a.polygons = b.polygons
  /\ a.recommended_start_points = b.recommended_start_points

\* C24: two inputs that differ only in wind_speed_mph, both 18 mph or more, give
\* the same t_minutes, the same three polygons and the same start points.
GeometrySameAboveWindCap ==
  (EnvelopeDone /\ call.input.wind_speed_mph >= 18 * FX) =>
    \A w \in CappedWinds : SameGeometry(ret, AtWind(w))

\* a call at 18 mph, four hours on: at 25 mph the geometry is the same and the
\* confidence score is not
ConfidenceDiffersAboveWindCap ==
  /\ EnvelopeDone
  /\ call.input.wind_speed_mph = 18 * FX
  /\ call.input.now_time_iso - call.input.lkp_time_iso = 240
  /\ TimesParse(call.input)
  /\ SameGeometry(ret, AtWind(25 * FX))
  /\ ret.confidence_score # AtWind(25 * FX).confidence_score
  /\ ret.polygons.core[2] # ret.polygons.core[1]

(***************************************************************************)
(* Properties of computeTrackMetrics, under SpecTrack.                     *)
(***************************************************************************)
TrackDone == pc = "done" /\ call.fn = "computeTrackMetrics"

\* C6: whenever laidTrack or dogTrack is empty, computeTrackMetrics returns, with
\* all five metrics 0, whatever the other track and the cone are.
EmptyTrackAllZero ==
  TrackDone /\ (call.laidTrack = <<>> \/ call.dogTrack = <<>>) =>
    /\ ret.minSeparationM = 0
    /\ ret.avgSeparationM = 0
    /\ ret.maxSeparationM = 0
    /\ ret.dogInsideConePct = 0
    /\ ret.laidTrackTransitions = 0

\* a call with a laid track inside and outside the cone and no dog track
EmptyDogTrackReturned ==
  /\ TrackDone
  /\ call.dogTrack = <<>>
  /\ Len(call.laidTrack) = 2
  /\ call.cone = RingOpen
  /\ pointInPolygon(call.laidTrack[1], call.cone)
  /\ ~pointInPolygon(call.laidTrack[2], call.cone)
  /\ ret.laidTrackTransitions = 0

\* C7: for non-empty, pointwise identical laidTrack and dogTrack the minimum,
\* average and maximum separation are all 0.
IdenticalTracksZeroSeparation ==
  TrackDone /\ call.laidTrack = call.dogTrack /\ call.laidTrack # <<>> =>
    /\ ret.minSeparationM = 0
    /\ ret.avgSeparationM = 0
    /\ ret.maxSeparationM = 0

\* a call with the same two distinct points as both tracks
IdenticalTwoPointTracks ==
  /\ TrackDone
  /\ call.laidTrack = call.dogTrack
  /\ Len(call.laidTrack) = 2
  /\ call.laidTrack[1] # call.laidTrack[2]
  /\ haversineMeters(call.laidTrack[1], call.laidTrack[2]) > 0
  /\ ret.maxSeparationM = 0

(***************************************************************************)
(* Properties of the simple cone kernel, under SpecCone.                   *)
(***************************************************************************)
ConePolygonDone == pc = "done" /\ call.fn = "buildConePolygon"

DistanceDone == pc = "done" /\ call.fn = "estimateScentDistanceMeters"

\* C8: buildConePolygon returns a ring of exactly 25 points: the source, 23 arc
\* samples away from it, and the source again as the last point.
ConePolygonHas25Points ==
  ConePolygonDone =>
    /\ Len(ret) = 25
    /\ ret[1] = call.lkp
    /\ ret[Len(ret)] = call.lkp
    /\ \A k \in 2..(Len(ret) - 1) : ret[k] # call.lkp

\* a ring returned for a source next to the antimeridian at the highest wind speed
ConePolygonReturned ==
  /\ ConePolygonDone
  /\ call.lkp.lng = 179900000
  /\ call.windSpeed = MaxWindKmh * MILLI
  /\ Len(ret) = 25

\* windSpeedKmh * 1000 * (minutes / 60) * 0.28 * stabilityFactor in Milli metres,
\* as one exact integer quotient (0.28 * 1000 / 60 = 14 / 3)
ExactDistance(windSpeedKmh, minutes, stability) ==
  LET num == IF stability = "low" THEN 5 ELSE IF stability = "high" THEN 3 ELSE 1
      den == IF stability = "medium" THEN 1 ELSE 4
  IN  (windSpeedKmh * minutes * 14 * num) \div (3 * den)

\* C9: estimateScentDistanceMeters is max(20, windSpeedKmh * 1000 * (minutes / 60)
\* * 0.28 * stabilityFactor), to the 0.1 m the fixed-point product may lose by
\* truncation: never below 20, and exactly 20 at wind speed 0.
DistanceIsFlooredFormula ==
  DistanceDone =>
    /\ ret >= 20 * MILLI
    /\ call.windSpeedKmh = 0 => ret = 20 * MILLI
    /\ Abs(ret - Max2(20 * MILLI,
                      ExactDistance(call.windSpeedKmh, call.minutes, call.stability)))
         <= 100

\* estimateScentDistanceMeters(0, 30, "medium") has returned 20
DistanceFloorAtCalm ==
  /\ DistanceDone
  /\ call.windSpeedKmh = 0
  /\ call.minutes = 30
  /\ call.stability = "medium"
  /\ ret = 20 * MILLI

(***************************************************************************)
(* Properties of the two destinationPoint functions, under SpecGeodesy.    *)
(***************************************************************************)
LongitudeInRange(lon) == lon > -180 * FX /\ lon <= 180 * FX

\* C10: for every origin, bearing and distance the longitude returned lies in
\* (-180, 180], by the geodesy kernel's destinationPoint and by the envelope model's.
LongitudeNormalized ==
  /\ pc = "done" /\ call.fn = "destinationPoint" => LongitudeInRange(ret.lng)
  /\ pc = "done" /\ call.fn = "envDestinationPoint" => LongitudeInRange(ret.lon)

\* the separation statistics of a result
SeparationStats(m) == <<m.minSeparationM, m.avgSeparationM, m.maxSeparationM>>

\* C27: with an empty cone polygon pointInPolygon is false for every point, so
\* computeTrackMetrics on non-empty tracks returns dogInsideConePct = 0 and
\* laidTrackTransitions = 0, and the separation statistics are those it returns
\* with any other cone.
EmptyConeHoldsNoPoint ==
  (TrackDone /\ call.cone = <<>> /\ Len(call.laidTrack) > 0 /\ Len(call.dogTrack) > 0) =>
    /\ \A i \in DOMAIN call.dogTrack : ~pointInPolygon(call.dogTrack[i], call.cone)
    /\ \A i \in DOMAIN call.laidTrack : ~pointInPolygon(call.laidTrack[i], call.cone)
    /\ ret.dogInsideConePct = 0
    /\ ret.laidTrackTransitions = 0
    /\ \A c \in Cones :
         SeparationStats(ret)
           = SeparationStats(computeTrackMetrics(call.laidTrack, call.dogTrack, c))

\* two different two-point tracks against the empty cone: separations above zero,
\* and a closed ring that would have held a dog point
EmptyConeApartTracks ==
  /\ TrackDone
  /\ call.cone = <<>>
  /\ Len(call.laidTrack) = 2 /\ Len(call.dogTrack) = 2
  /\ ret.minSeparationM > 0
  /\ ret.minSeparationM < ret.maxSeparationM
  /\ ret.dogInsideConePct = 0
  /\ computeTrackMetrics(call.laidTrack, call.dogTrack, RingClosed).dogInsideConePct > 0

(***************************************************************************)
(* Bearings: normalizeDeg and windFromToDeg on every multiple of 15        *)
(* degrees of one turn either way, and on bearings a hair off a turn.      *)
(***************************************************************************)
MaxTurns == 2

BearingArgs ==
  { 15 * n * FX : n \in -24..24 }
    \cup { 1, -1, HALF, -HALF, 360 * FX - 1, 1 - 360 * FX, 180 * FX + 1, -180 * FX - 1 }

InitBearing ==
  /\ pc = "call"
  /\ \E d \in BearingArgs :
       \/ call = [fn |-> "normalizeDeg", deg |-> d]
       \/ call = [fn |-> "windFromToDeg", windFromDeg |-> d]
  /\ ret = <<>>
  /\ locals = <<>>

CallNormalizeDeg ==
  /\ pc = "call"
  /\ call.fn = "normalizeDeg"
  /\ ret' = normalizeDeg(call.deg)
  /\ pc' = "done"
  /\ UNCHANGED <<call, locals>>

CallWindFromToDeg ==
  /\ pc = "call"
  /\ call.fn = "windFromToDeg"
  /\ ret' = windFromToDeg(call.windFromDeg)
  /\ pc' = "done"
  /\ UNCHANGED <<call, locals>>

NextBearing == CallNormalizeDeg \/ CallWindFromToDeg

SpecBearing == InitBearing /\ [][NextBearing]_vars

NormalizeDone == pc = "done" /\ call.fn = "normalizeDeg"

RingTriangle ==
  << [lat |-> 39500000, lng |-> -105500000], [lat |-> 39500000, lng |-> -103500000],
     [lat |-> 40500000, lng |-> -104500000] >>

RingConcave ==
  << [lat |-> 39500000, lng |-> -105500000], [lat |-> 39500000, lng |-> -103500000],
     [lat |-> 40 * FX, lng |-> -103500000], [lat |-> 40 * FX, lng |-> -104500000],
     [lat |-> 40500000, lng |-> -104500000], [lat |-> 40500000, lng |-> -105500000] >>

UnclosedRings == { RingOpen, RingTriangle, RingConcave }

CloseRing(ring) == Append(ring, ring[1])

RingArgs == UnclosedRings \cup { CloseRing(r) : r \in UnclosedRings } \cup { RingClosed, <<>> }

GridPoints ==
  { [lat |-> la, lng |-> lo] :
      la \in {39 * FX, 39750000, 39900000, 40250000, 41 * FX},
      lo \in {-106 * FX, -105200000, -105 * FX, -104750000, -104 * FX, -103 * FX} }

InitRing ==
  /\ pc = "call"
  /\ \E p \in GridPoints, r \in RingArgs :
       call = [fn |-> "pointInPolygon", point |-> p, polygon |-> r]
  /\ ret = <<>>
  /\ locals = <<>>

CallPointInPolygon ==
  /\ pc = "call"
  /\ call.fn = "pointInPolygon"
  /\ ret' = pointInPolygon(call.point, call.polygon)
  /\ pc' = "done"
  /\ UNCHANGED <<call, locals>>

NextRing == CallPointInPolygon

SpecRing == InitRing /\ [][NextRing]_vars

RingDone == pc = "done" /\ call.fn = "pointInPolygon"

\* the same ring in its other form: without the closing point if it has one, with
\* the first point repeated as the last if it has none
OtherForm(ring) ==
  IF ring[1] = ring[Len(ring)] THEN SubSeq(ring, 1, Len(ring) - 1) ELSE CloseRing(ring)

\* C13: for a point not on a ring edge, pointInPolygon returns the same for the ring
\* without a closing point and for the ring with its first point repeated as the last.
ClosingPointMakesNoDifference ==
  RingDone /\ call.polygon # <<>> =>
    ret = pointInPolygon(call.point, OtherForm(call.polygon))

\* a point found inside a ring given without its closing point, east of the edge
\* that joins the last vertex to the first
InsideUnclosedRing ==
  /\ RingDone
  /\ call.polygon = RingOpen
  /\ call.point = [lat |-> 39900000, lng |-> -105 * FX]
  /\ ret = TRUE

(***************************************************************************)
(* computeTrackMetrics on laid tracks of up to MaxLaidLen points, which    *)
(* enter and leave the cones, with a one-point dog track.                  *)
(***************************************************************************)
MaxLaidLen == 3

LaidTracks == UNION { TracksOfLen(n) : n \in 1..MaxLaidLen }

InitLaid ==
  /\ pc = "call"
  /\ \E l \in LaidTracks, d \in TracksOfLen(1), c \in Cones :
       call = [fn |-> "computeTrackMetrics", laidTrack |-> l, dogTrack |-> d, cone |-> c]
  /\ ret = <<>>
  /\ locals = <<>>

NextLaid == CallComputeTrackMetrics

SpecLaid == InitLaid /\ [][NextLaid]_vars

\* the indices (1-based) at which the laid track changes side of the cone
ChangesOfSide(laidTrack, cone) ==
  { i \in 2..Len(laidTrack) :
      pointInPolygon(laidTrack[i], cone) # pointInPolygon(laidTrack[i - 1], cone) }

\* C14: for non-empty tracks laidTrackTransitions is the number of indices i >= 1
\* at which pointInPolygon(laidTrack[i], cone) differs from that of laidTrack[i-1]:
\* 0 for a one-point laid track and at most length(laidTrack) - 1.
TransitionsCountChangesOfSide ==
  TrackDone /\ call.laidTrack # <<>> /\ call.dogTrack # <<>> =>
    /\ ret.laidTrackTransitions = Cardinality(ChangesOfSide(call.laidTrack, call.cone))
    /\ Len(call.laidTrack) = 1 => ret.laidTrackTransitions = 0
    /\ ret.laidTrackTransitions <= Len(call.laidTrack) - 1

\* a laid track that leaves the cone and comes back: two transitions
LaidTrackLeavesAndReturns ==
  /\ TrackDone
  /\ Len(call.laidTrack) = 3
  /\ call.dogTrack # <<>>
  /\ pointInPolygon(call.laidTrack[1], call.cone)
  /\ ~pointInPolygon(call.laidTrack[2], call.cone)
  /\ pointInPolygon(call.laidTrack[3], call.cone)
  /\ ret.laidTrackTransitions = 2

(***************************************************************************)
(* nearestPointForPlayback on tracks of up to MaxPlaybackLen points, each  *)
(* at its own latitude, with timestamps in any order, missing or not a     *)
(* date, at five progress values.                                          *)
(***************************************************************************)
MaxPlaybackLen == 3

Stamps == {NO_TS, INVALID_ISO, 0, 4, 8, 20}

RECURSIVE StampSeqs(_)
StampSeqs(n) ==
  IF n = 0 THEN { <<>> } ELSE { Append(q, t) : q \in StampSeqs(n - 1), t \in Stamps }

\* the track whose i-th point lies at latitude 40 + i and carries the i-th stamp
SampleTrack(stamps) ==
  [i \in 1..Len(stamps) |-> [lat |-> (40 + i) * FX, lng |-> -105 * FX, ts |-> stamps[i]]]

PlaybackTracks == { SampleTrack(q) : q \in UNION { StampSeqs(n) : n \in 0..MaxPlaybackLen } }

Progresses == {0, FX \div 4, HALF, 3 * (FX \div 4), FX}

InitPlayback ==
  /\ pc = "call"
  /\ \E tr \in PlaybackTracks, p \in Progresses :
       call = [fn |-> "nearestPointForPlayback", track |-> tr, progress |-> p]
  /\ ret = <<>>
  /\ locals = <<>>

CallNearestPointForPlayback ==
  /\ pc = "call"
  /\ call.fn = "nearestPointForPlayback"
  /\ ret' = nearestPointForPlayback(call.track, call.progress)
  /\ pc' = "done"
  /\ UNCHANGED <<call, locals>>

NextPlayback == CallNearestPointForPlayback

SpecPlayback == InitPlayback /\ [][NextPlayback]_vars

PlaybackDone == pc = "done" /\ call.fn = "nearestPointForPlayback"

TimedPoints(track) == { i \in 1..Len(track) : hasFiniteTime(track[i]) }

Position(p) == [lat |-> p.lat, lng |-> p.lng]

\* ret is the position of a timed point of the track nearest in time to target
NearestTimedPoint(track, target) ==
  \E i \in TimedPoints(track) :
    /\ ret = Position(track[i])
    /\ \A j \in TimedPoints(track) :
         Abs(getTime(track[i]) - target) <= Abs(getTime(track[j]) - target)

\* ret is the point at index round(p * (n - 1))
ProportionalPoint(track, progress) ==
  ret = Position(track[MathRound(progress * (Len(track) - 1)) + 1])

EarliestTime(track) ==
  CHOOSE t \in { getTime(track[i]) : i \in TimedPoints(track) } :
    \A i \in TimedPoints(track) : t <= getTime(track[i])

LatestTime(track) ==
  CHOOSE t \in { getTime(track[i]) : i \in TimedPoints(track) } :
    \A i \in TimedPoints(track) : t >= getTime(track[i])

\* C15 as stated, where the first and the last track point carry a timestamp: with
\* two or more timed points the point returned is the one nearest in time to
\* ts(first point) + p * (ts(last point) - ts(first point)); with fewer, the point
\* at index round(p * (n - 1)).
PlaybackBetweenFirstAndLastPoint ==
  PlaybackDone /\ call.track # <<>> =>
    /\ /\ Cardinality(TimedPoints(call.track)) >= 2
       /\ hasFiniteTime(call.track[1])
       /\ hasFiniteTime(call.track[Len(call.track)])
       => NearestTimedPoint(call.track,
            getTime(call.track[1])
              + FxMul(call.progress,
                      getTime(call.track[Len(call.track)]) - getTime(call.track[1])))
    /\ Cardinality(TimedPoints(call.track)) < 2
       => ProportionalPoint(call.track, call.progress)

\* C15, amended: on a non-empty track, with two or more timed points the point
\* returned is a timed point nearest in time to earliest + p * (latest - earliest),
\* earliest and latest being the least and greatest parseable timestamps of the
\* track; with fewer, the point at index round(p * (n - 1)).
PlaybackBetweenEarliestAndLatest ==
  PlaybackDone /\ call.track # <<>> =>
    /\ Cardinality(TimedPoints(call.track)) >= 2
       => NearestTimedPoint(call.track,
            EarliestTime(call.track)
              + FxMul(call.progress, LatestTime(call.track) - EarliestTime(call.track)))
    /\ Cardinality(TimedPoints(call.track)) < 2
       => ProportionalPoint(call.track, call.progress)

\* a track whose timestamps run backwards, at progress 0: the last point is returned
PlaybackOnUnorderedTrack ==
  /\ PlaybackDone
  /\ Len(call.track) = 3
  /\ call.track[1].ts = 8
  /\ call.track[2].ts = 4
  /\ call.track[3].ts = 0
  /\ call.progress = 0
  /\ ret = Position(call.track[3])

(***************************************************************************)
(* computeTrackMetrics on a one-point laid track and dog tracks of up to   *)
(* MaxDogLen points, among them a dog standing still: the same point, and  *)
(* so the same separation, several times over.                             *)
(***************************************************************************)
MaxDogLen == 5

LaidPoint == [lat |-> 40 * FX, lng |-> -105 * FX]

DogPoints ==
  { LaidPoint, [lat |-> 40500000, lng |-> -104 * FX], [lat |-> 40 * FX, lng |-> -103500000] }

RECURSIVE DogTracksOfLen(_)
DogTracksOfLen(n) ==
  IF n = 0 THEN { <<>> }
  ELSE { Append(q, p) : q \in DogTracksOfLen(n - 1), p \in DogPoints }

DogTracks == UNION { DogTracksOfLen(n) : n \in 1..MaxDogLen }

InitSeparation ==
  /\ pc = "call"
  /\ \E d \in DogTracks :
       call = [fn |-> "computeTrackMetrics", laidTrack |-> <<LaidPoint>>, dogTrack |-> d,
               cone |-> RingClosed]
  /\ ret = <<>>
  /\ locals = <<>>

NextSeparation == CallComputeTrackMetrics

SpecSeparation == InitSeparation /\ [][NextSeparation]_vars

BothTracksNonEmpty == Len(call.laidTrack) > 0 /\ Len(call.dogTrack) > 0

\* the most by which rounding moves the mean of n separations of at most m metres
RoundingSlack(n, m) == (n * m) \div Pow2(SigBits) + 1

PctInRange ==
  /\ 0 <= ret.dogInsideConePct
  /\ ret.dogInsideConePct <= 100 * FX

\* C25 as stated: for non-empty laidTrack and dogTrack, computeTrackMetrics returns
\* 0 <= minSeparationM <= avgSeparationM <= maxSeparationM and
\* 0 <= dogInsideConePct <= 100.
SeparationsOrdered ==
  (TrackDone /\ BothTracksNonEmpty) =>
    /\ 0 <= ret.minSeparationM
    /\ ret.minSeparationM <= ret.avgSeparationM
    /\ ret.avgSeparationM <= ret.maxSeparationM
    /\ PctInRange

\* C25 as the code has it: for non-empty tracks 0 <= minSeparationM <=
\* maxSeparationM and 0 <= dogInsideConePct <= 100, and avgSeparationM lies between
\* minSeparationM and maxSeparationM to within the rounding of the sum and the
\* division: it is exactly between them for one or two dog points.
SeparationsOrderedToRounding ==
  (TrackDone /\ BothTracksNonEmpty) =>
    /\ 0 <= ret.minSeparationM
    /\ ret.minSeparationM <= ret.maxSeparationM
    /\ ret.minSeparationM - RoundingSlack(Len(call.dogTrack), ret.maxSeparationM)
         <= ret.avgSeparationM
    /\ ret.avgSeparationM
         <= ret.maxSeparationM + RoundingSlack(Len(call.dogTrack), ret.maxSeparationM)
    /\ Len(call.dogTrack) <= 2 =>
         /\ ret.minSeparationM <= ret.avgSeparationM
         /\ ret.avgSeparationM <= ret.maxSeparationM
    /\ PctInRange

\* a dog track at three distances from the laid point, partly inside the cone:
\* the mean strictly between the least and the greatest separation
MeanStrictlyBetween ==
  /\ TrackDone
  /\ BothTracksNonEmpty
  /\ Len(call.dogTrack) >= 3
  /\ 0 = ret.minSeparationM
  /\ ret.minSeparationM < ret.avgSeparationM
  /\ ret.avgSeparationM < ret.maxSeparationM
  /\ 0 < ret.dogInsideConePct /\ ret.dogInsideConePct < 100 * FX

(***************************************************************************)
(* The confidence time constant, on temperatures, humidities and winds     *)
(* either side of each threshold, under every cloud cover.                 *)
(***************************************************************************)
TauTemps == {59, 60, 61, 85, 86}

TauHumidities == {29, 30, 31, 60, 61}

TauWinds == {0, 13 * FX - 1, 13 * FX, 13 * FX + 1, 30 * FX}

InitTau ==
  /\ pc = "call"
  /\ \E tempF \in TauTemps, rh \in TauHumidities, cloud \in Clouds, windMph \in TauWinds :
       call = [fn |-> "confidenceTauMinutes", tempF |-> tempF, rh |-> rh,
               cloud |-> cloud, windMph |-> windMph]
  /\ ret = <<>>
  /\ locals = <<>>

CallConfidenceTauMinutes ==
  /\ pc = "call"
  /\ call.fn = "confidenceTauMinutes"
  /\ ret' = confidenceTauMinutes(call.tempF, call.rh, call.cloud, call.windMph)
  /\ pc' = "done"
  /\ UNCHANGED <<call, locals>>

NextTau == CallConfidenceTauMinutes

SpecTau == InitTau /\ [][NextTau]_vars

TauDone == pc = "done" /\ call.fn = "confidenceTauMinutes"

\* humid or cool, under overcast or night, in a wind below 13 mph
SlowDecayWeather ==
  /\ call.rh > 60 \/ call.tempF < 60
  /\ call.cloud \in {"overcast", "night"}
  /\ call.windMph < 13 * FX

\* hot, dry or clear, in a wind of 13 mph or more
FastDecayWeather ==
  /\ call.tempF > 85 \/ call.rh < 30 \/ call.cloud = "clear"
  /\ call.windMph >= 13 * FX

\* C19: tau is 240 exactly when (humidity > 60 or temperature < 60) and cloud is
\* overcast or night and wind < 13 mph; 120 exactly when (temperature > 85 or
\* humidity < 30 or cloud is clear) and wind >= 13 mph; 180 in every other case.
TauByWeather ==
  TauDone =>
    /\ ret = 240 <=> SlowDecayWeather
    /\ ret = 120 <=> FastDecayWeather
    /\ ret = 180 <=> (~SlowDecayWeather /\ ~FastDecayWeather)

\* a hot, humid, overcast call in a wind of exactly 13 mph returned 120
TauAtWindThreshold ==
  /\ TauDone
  /\ call.tempF = 86 /\ call.rh = 61 /\ call.cloud = "overcast"
  /\ call.windMph = 13 * FX
  /\ ret = 120

\* the two assignments of confidenceTauMinutes in the other order
TauFastThenSlow(tempF, rh, cloud, windMph) ==
  LET tau1 == IF tauFastCondition(tempF, rh, cloud, windMph) THEN 120 ELSE 180
  IN  IF tauSlowCondition(tempF, rh, cloud, windMph) THEN 240 ELSE tau1

\* C26: no temperature, humidity, cloud and wind satisfies both the 240 condition
\* and the 120 condition, so tau is the same with the two assignments evaluated
\* in the other order.
TauConditionsExclusive ==
  TauDone =>
    /\ ~(/\ tauSlowCondition(call.tempF, call.rh, call.cloud, call.windMph)
         /\ tauFastCondition(call.tempF, call.rh, call.cloud, call.windMph))
    /\ ret = TauFastThenSlow(call.tempF, call.rh, call.cloud, call.windMph)

\* a cool, dry night just under 13 mph: cool and night give 240, and dryness,
\* which would give 120 in wind, does not
CoolDryNightBelowThreshold ==
  /\ TauDone
  /\ call.tempF = 59 /\ call.rh = 29 /\ call.cloud = "night"
  /\ call.windMph = 13 * FX - 1
  /\ ret = 240

(***************************************************************************)
(* The confidence multipliers, on every precipitation with and without     *)
(* recent rain, in weather either side of the other multipliers' steps.    *)
(***************************************************************************)
MultTemps == {59, 75, 86}

MultHumidities == {29, 50, 61}

MultWinds == {3 * FX, 5 * FX, 13 * FX, 19 * FX}

InitMultipliers ==
  /\ pc = "call"
  /\ \E tempF \in MultTemps, rh \in MultHumidities, cloud \in Clouds,
        precip \in Precips, recentRain \in BOOLEAN, windMph \in MultWinds :
       call = [fn |-> "confidenceMultipliers", tempF |-> tempF, rh |-> rh, cloud |-> cloud,
               precip |-> precip, recentRain |-> recentRain, windMph |-> windMph]
  /\ ret = <<>>
  /\ locals = <<>>

CallConfidenceMultipliers ==
  /\ pc = "call"
  /\ call.fn = "confidenceMultipliers"
  /\ ret' = confidenceMultipliers(call.tempF, call.rh, call.cloud, call.precip,
                                  call.recentRain, call.windMph)
  /\ pc' = "done"
  /\ UNCHANGED <<call, locals>>

NextMultipliers == CallConfidenceMultipliers

SpecMultipliers == InitMultipliers /\ [][NextMultipliers]_vars

MultipliersDone == pc = "done" /\ call.fn = "confidenceMultipliers"

\* what the same call returns with recentRain the other way
OtherRecentRain ==
  confidenceMultipliers(call.tempF, call.rh, call.cloud, call.precip,
                        ~call.recentRain, call.windMph)

\* C23: the precipitation multiplier is 0.75 for heavy, 0.90 for light or moderate,
\* 0.95 for none with recent rain and 1.0 for none without; recent_rain has no
\* effect on the result when precip is light, moderate or heavy.
RainMultByPrecip ==
  MultipliersDone =>
    /\ call.precip = "heavy" => ret.RainMult = 750000
    /\ call.precip \in {"light", "moderate"} => ret.RainMult = 900000
    /\ (call.precip = "none" /\ call.recentRain) => ret.RainMult = 950000
    /\ (call.precip = "none" /\ ~call.recentRain) => ret.RainMult = FX
    /\ call.precip # "none" => ret = OtherRecentRain

\* heavy precipitation after recent rain: 0.75, the recent rain not counted
HeavyAfterRecentRain ==
  /\ MultipliersDone
  /\ call.precip = "heavy"
  /\ call.recentRain
  /\ ret.RainMult = 750000

(***************************************************************************)
(* pages/index.tsx: the LKP of the planner page.  locals holds the page's  *)
(* state: lkp, mapCenter, userLocation, the three LKP flags, drawTarget as *)
(* the map receives it, the number of drawn dog points and the state of    *)
(* the start-up geolocation request; call holds the last event.            *)
(***************************************************************************)
DEFAULT_LKP == [lat |-> 39500000, lng |-> -104990000]

NO_LOCATION == [lat |-> NaN, lng |-> NaN]

MaxDrawnPoints == 1

ClickPoints == { [lat |-> 39600000, lng |-> -105 * FX], [lat |-> 39400000, lng |-> -104900000] }

DevicePoints == { [lat |-> 40 * FX, lng |-> -105 * FX] }

\* handleSetLkpFromMap without setCanPlaceLkp(false): placement stays armed
handleSetLkpFromMapStaysArmed(page, point) ==
  IF ~page.canPlaceLkp /\ page.lkpLocked THEN page
  ELSE [page EXCEPT !.lkp = point, !.mapCenter = point, !.hasLkp = TRUE,
                    !.lkpLocked = TRUE]

handleSetLkpFromMap(page, point) ==
  IF ~page.canPlaceLkp /\ page.lkpLocked THEN page
  ELSE [page EXCEPT !.lkp = point, !.mapCenter = point, !.hasLkp = TRUE,
                    !.lkpLocked = TRUE, !.canPlaceLkp = FALSE]

armAdditionalLkpPlacement(page) == [page EXCEPT !.canPlaceLkp = TRUE]

resetLkp(page) ==
  [page EXCEPT !.hasLkp = FALSE, !.lkpLocked = FALSE, !.canPlaceLkp = TRUE]

\* addTrackPoint with target "dog": one more point on the dog track
addTrackPoint(page) == [page EXCEPT !.dogPoints = @ + 1]

\* EventBridge, click: canPlaceLkp is the prop, canPlaceLkp || !lkpLocked
mapClick(page, point) ==
  LET canPlaceLkp == page.canPlaceLkp \/ ~page.lkpLocked
      afterLkp == IF page.drawTarget = "none" /\ canPlaceLkp
                    THEN handleSetLkpFromMap(page, point) ELSE page
  IN  IF page.drawTarget = "dog" THEN addTrackPoint(afterLkp) ELSE afterLkp

\* the success callback of the start-up getCurrentPosition
geolocationFound(page, current) ==
  [page EXCEPT !.lkp = current, !.mapCenter = current, !.userLocation = current,
               !.hasLkp = TRUE, !.lkpLocked = TRUE, !.geolocation = "done"]

InitPage ==
  /\ pc = "page"
  /\ call = [fn |-> "mount"]
  /\ ret = <<>>
  /\ \E g \in {"pending", "unavailable"} :
       locals = [lkp |-> DEFAULT_LKP, mapCenter |-> DEFAULT_LKP, userLocation |-> NO_LOCATION,
                 lkpLocked |-> TRUE, canPlaceLkp |-> FALSE, hasLkp |-> TRUE,
                 drawTarget |-> "none", dogPoints |-> 0, geolocation |-> g]

MapClick ==
  /\ pc = "page"
  /\ \E point \in ClickPoints :
       /\ locals.drawTarget = "dog" => locals.dogPoints < MaxDrawnPoints
       /\ call' = [fn |-> "click", point |-> point]
       /\ locals' = mapClick(locals, point)
  /\ UNCHANGED <<pc, ret>>

ArmAdditionalLkpPlacement ==
  /\ pc = "page"
  /\ call' = [fn |-> "armAdditionalLkpPlacement"]
  /\ locals' = armAdditionalLkpPlacement(locals)
  /\ UNCHANGED <<pc, ret>>

ResetLkp ==
  /\ pc = "page"
  /\ call' = [fn |-> "resetLkp"]
  /\ locals' = resetLkp(locals)
  /\ UNCHANGED <<pc, ret>>

SetDrawTarget ==
  /\ pc = "page"
  /\ \E target \in {"none", "dog"} :
       /\ call' = [fn |-> "setDrawTarget", target |-> target]
       /\ locals' = [locals EXCEPT !.drawTarget = target]
  /\ UNCHANGED <<pc, ret>>

GeolocationSuccess ==
  /\ pc = "page"
  /\ locals.geolocation = "pending"
  /\ \E current \in DevicePoints :
       /\ call' = [fn |-> "geolocationSuccess", point |-> current]
       /\ locals' = geolocationFound(locals, current)
  /\ UNCHANGED <<pc, ret>>

GeolocationError ==
  /\ pc = "page"
  /\ locals.geolocation = "pending"
  /\ call' = [fn |-> "geolocationError"]
  /\ locals' = [locals EXCEPT !.geolocation = "done"]
  /\ UNCHANGED <<pc, ret>>

NextPage ==
  \/ MapClick
  \/ ArmAdditionalLkpPlacement
  \/ ResetLkp
  \/ SetDrawTarget
  \/ GeolocationSuccess
  \/ GeolocationError

SpecPage == InitPage /\ [][NextPage]_vars

LkpFlagsAgree ==
  pc = "page" =>
    /\ locals.hasLkp = locals.lkpLocked
    /\ ~locals.hasLkp => locals.canPlaceLkp

\* a step that is a map click moving the LKP
ClickMovesLkp == pc = "page" /\ call'.fn = "click" /\ locals'.lkp # locals.lkp

\* C29: after any sequence of map clicks, Reset LKP, Add Additional LKP and the
\* start-up geolocation callback, hasLkp equals lkpLocked, and whenever hasLkp is
\* false canPlaceLkp is true; a map click changes the LKP only when canPlaceLkp is
\* true or lkpLocked is false, and after it canPlaceLkp is false.
LkpMovesOnlyWhenArmed ==
  /\ []LkpFlagsAgree
  /\ [][ClickMovesLkp =>
          /\ locals.canPlaceLkp \/ ~locals.lkpLocked
          /\ ~locals'.canPlaceLkp
          /\ locals'.lkp = call'.point]_vars

\* after Reset LKP a click has placed a new LKP, the start-up position still
\* awaited: the LKP is set and locked, placement disarmed
LkpPlacedAfterReset ==
  /\ pc = "page"
  /\ call.fn = "click"
  /\ locals.lkp = call.point
  /\ locals.geolocation = "pending"
  /\ locals.userLocation = NO_LOCATION
  /\ locals.hasLkp /\ locals.lkpLocked /\ ~locals.canPlaceLkp

(***************************************************************************)
(* pages/index.tsx: the pooling overlay effect.  locals holds showPooling, *)
(* the effect's other dependencies, poolingResult (empty for null, else    *)
(* holding the query it answers), poolingError and the requests in flight, *)
(* each with the active flag of the effect run that sent it.  A change of  *)
(* a dependency runs the effect in the same step: the cleanup of the last  *)
(* run, then the new run.  call holds the last event.                      *)
(***************************************************************************)
MaxInFlight == 2

\* line 105: useState<PoolingOverlayResult | null>(null)
NO_POOLING == {}

\* lines 45, 102-106: the dependencies of the effect when the page is mounted
InitialPoolingDeps ==
  [lkp |-> DEFAULT_LKP, effectiveWindFrom |-> 270 * FX,
   poolingSensitivity |-> "medium", poolingRadiusKm |-> 1]

\* the initial dependencies, and each of them changed alone
PoolingDeps ==
  { deps \in [lkp : {DEFAULT_LKP, [lat |-> 39600000, lng |-> -105 * FX]},
               effectiveWindFrom : {270 * FX, 90 * FX},
               poolingSensitivity : {"medium", "high"},
               poolingRadiusKm : {1, 2}] :
      Cardinality({f \in DOMAIN deps : deps[f] # InitialPoolingDeps[f]}) <= 1 }

\* the arguments of fetchPoolingOverlay, lines 301-306
poolingQuery(deps) ==
  [lkp |-> deps.lkp, windToDeg |-> windFromToDeg(deps.effectiveWindFrom),
   radiusKm |-> deps.poolingRadiusKm, sensitivity |-> deps.poolingSensitivity]

\* lines 315-317: the cleanup of the last run clears its active flag
poolingCleanup(requests) ==
  { [r EXCEPT !.active = FALSE] : r \in requests }

\* the ids no request in flight carries, and the least of them: requests are
\* told apart by the closure that sent them, the number only names it
FreeIds(page) == (1..MaxInFlight) \ { r.id : r \in page.requests }

LeastFreeId(page) == CHOOSE id \in FreeIds(page) : \A other \in FreeIds(page) : id <= other

\* lines 291-318: one run of the effect, after the cleanup of the run before
poolingEffect(page) ==
  LET cleaned == poolingCleanup(page.requests)
  IN  IF ~page.showPooling
        THEN [page EXCEPT !.requests = cleaned, !.poolingResult = NO_POOLING]
        ELSE [page EXCEPT !.requests = cleaned \cup
                             { [id |-> LeastFreeId(page), active |-> TRUE,
                                query |-> poolingQuery(page.deps)] },
                          !.poolingError = ""]

\* the response stored whether or not the run that asked for it is still active
poolingResolvedUnguarded(page, r) ==
  [page EXCEPT !.requests = @ \ {r}, !.poolingResult = {r.query}]

\* line 307: the response of request r
poolingResolved(page, r) ==
  IF r.active
    THEN [page EXCEPT !.requests = @ \ {r}, !.poolingResult = {r.query}]
    ELSE [page EXCEPT !.requests = @ \ {r}]

\* lines 308-313: the failure of request r
poolingRejected(page, r) ==
  IF r.active
    THEN [page EXCEPT !.requests = @ \ {r}, !.poolingError = "Pooling unavailable",
                      !.poolingResult = NO_POOLING]
    ELSE [page EXCEPT !.requests = @ \ {r}]

InitPooling ==
  /\ pc = "pooling"
  /\ call = [fn |-> "mount"]
  /\ ret = <<>>
  /\ locals = [showPooling |-> FALSE,
               deps |-> InitialPoolingDeps,
               poolingResult |-> NO_POOLING, poolingError |-> "", requests |-> {}]

SetShowPooling ==
  /\ pc = "pooling"
  /\ \E checked \in BOOLEAN :
       /\ checked # locals.showPooling
       /\ checked => FreeIds(locals) # {}
       /\ call' = [fn |-> "setShowPooling", checked |-> checked]
       /\ locals' = poolingEffect([locals EXCEPT !.showPooling = checked])
  /\ UNCHANGED <<pc, ret>>

ChangePoolingDependency ==
  /\ pc = "pooling"
  /\ \E deps \in PoolingDeps :
       /\ Cardinality({f \in DOMAIN deps : deps[f] # locals.deps[f]}) = 1
       /\ locals.showPooling => FreeIds(locals) # {}
       /\ call' = [fn |-> "setDependency", deps |-> deps]
       /\ locals' = poolingEffect([locals EXCEPT !.deps = deps])
  /\ UNCHANGED <<pc, ret>>

PoolingResponse ==
  /\ pc = "pooling"
  /\ \E r \in locals.requests :
       /\ call' = [fn |-> "response", request |-> r]
       /\ locals' = poolingResolved(locals, r)
  /\ UNCHANGED <<pc, ret>>

PoolingFailure ==
  /\ pc = "pooling"
  /\ \E r \in locals.requests :
       /\ call' = [fn |-> "failure", request |-> r]
       /\ locals' = poolingRejected(locals, r)
  /\ UNCHANGED <<pc, ret>>

NextPooling ==
  \/ SetShowPooling
  \/ ChangePoolingDependency
  \/ PoolingResponse
  \/ PoolingFailure

SpecPooling == InitPooling /\ [][NextPooling]_vars

\* a step in which a response or a failure arrives for a request whose effect
\* run was cleaned up: by a change of a dependency, or by switching off
LateArrival ==
  /\ pc = "pooling"
  /\ call'.fn \in {"response", "failure"}
  /\ call'.request \in locals.requests
  /\ ~call'.request.active

OverlayOffResultNull ==
  (pc = "pooling" /\ ~locals.showPooling) => locals.poolingResult = NO_POOLING

\* C30: a pooling response or failure that arrives after its request was
\* superseded by a change of LKP, wind direction, sensitivity or radius, or after
\* the overlay was switched off, never changes poolingResult or poolingError; with
\* the overlay switched off poolingResult stays null under every interleaving.
LateArrivalChangesNothing ==
  /\ [][LateArrival =>
          /\ locals'.poolingResult = locals.poolingResult
          /\ locals'.poolingError = locals.poolingError]_vars
  /\ []OverlayOffResultNull

\* the response to a superseded request has just arrived, after the response to
\* the request that superseded it: the overlay shows the newer answer
LateResponseAfterNewer ==
  /\ pc = "pooling"
  /\ call.fn = "response"
  /\ ~call.request.active
  /\ locals.showPooling
  /\ locals.poolingResult = {poolingQuery(locals.deps)}
  /\ call.request.query \notin locals.poolingResult

(***************************************************************************)
(* Every library call together.                                            *)
(***************************************************************************)
Init == InitEnvelope \/ InitGeodesy \/ InitCone \/ InitTrack \/ InitBearing \/ InitRing
          \/ InitLaid \/ InitPlayback \/ InitTau \/ InitMultipliers \/ InitSeparation
          \/ InitBands \/ InitPage \/ InitPooling

Next == NextEnvelope \/ NextGeodesy \/ NextCone \/ NextTrack \/ NextBearing \/ NextRing
          \/ NextPlayback \/ NextTau \/ NextMultipliers
          \/ NextBands \/ NextPage \/ NextPooling

Spec == Init /\ [][Next]_vars
====
